---- MODULE Spec2Model ----
(***************************************************************************)
(* Model of the trend-analysis backend:                                    *)
(*   - the trend store (SQLite table "trends"), the get_db session context *)
(*     manager and TrendAnalyzer.update_trends, run by concurrent request  *)
(*     handlers, each with its own session;                                *)
(*   - the pure text functions of backend/patterns/tokenizer.py and the    *)
(*     importance computation of TrendAnalyzer.                            *)
(* Strings are sequences of one-character strings.  Floating-point         *)
(* importance values are integers in units of 1/10000.                     *)
(***************************************************************************)
EXTENDS Integers, Sequences, FiniteSets, TLC

\* ------------------------------------------------------------------------
\* Bounds of the model
\* ------------------------------------------------------------------------
\* MaxChars bounds the requests: the texts of all passes together have at most
\* MaxChars characters, and every text has at least one, so there are at most
\* MaxChars passes.
MaxChars == 2
MaxInitCount == 1
\* the longest text given to preprocess_text
MaxPreLen == 3
\* the longest text given to split_sentences (the example sentence apart)
MaxSplitLen == 5
\* the longest sentence given to tokenize_sentence
MaxTokLen == 3
\* the longest word given to _identify_part_of_speech
MaxWordLen == 3
\* _analyze_with_context: the sentence, the previous and the next sentence
\* have at most MaxContextChars characters together
MaxContextChars == 3
\* the longest text given to analyze
MaxAnalyzeLen == 4
\* the number of request threads that score keywords at the same time
MaxThreads == 2
\* the longest keyword given to _evaluate_trend_indicators (the listed
\* keywords apart)
MaxKeywordLen == 2
\* the longest text given to analyze_sentiment
MaxSentimentLen == 4
\* the greatest limit given to get_latest_trends
MaxLimit == 4
\* the longest text given to _is_balanced
MaxBalanceLen == 4
\* the longest text the loop of split_sentences runs on
MaxLoopLen == 4
\* the longest text given to _find_longest_match
MaxMatchLen == 3
\* the most words of a sentence given to _adjust_importance
MaxAdjustWords == 2

Passes == 1..MaxChars

\* ------------------------------------------------------------------------
\* Generic helpers
\* ------------------------------------------------------------------------
Range(s) == {s[i] : i \in 1..Len(s)}

Strs(A, n) == UNION {[1..k -> A] : k \in 0..n}

Last(s) == s[Len(s)]

Front(s) == SubSeq(s, 1, Len(s) - 1)

NoError == "NoError"
None == [none |-> TRUE]

\* ------------------------------------------------------------------------
\* Characters.  A character is written by an ASCII name:
\*   "watashi" = U+79C1 (kanji),  "ha" = U+306F and "ga" = U+304C (hiragana
\*   particles), "ju" = U+91CD (kanji), "maru" = U+3002 (ideographic full stop),
\*   "ten" = U+3001 (ideographic comma), "zcomma" = U+FF0C (full-width comma),
\*   "zdot" = U+FF0E (full-width full stop), "zA" = U+FF21 (full-width A),
\*   "zsp" = U+3000 (ideographic space), "nl" = line feed,
\*   "lq"/"rq" = U+300C/U+300D (corner brackets), "dlq"/"drq" = U+300E/U+300F
\*   (white corner brackets), "zlp"/"zrp", "zlb"/"zrb", "zlc"/"zrc", "zlt"/"zgt"
\*   = the full-width forms of ( ) [ ] { } < >, "zbang"/"zq" = the full-width
\*   forms of ! ?, "nakaguro" = U+30FB, "rlb" = U+3011 (right lenticular
\*   bracket), "ctl" = U+0001 (control),
\*   "bs" = backslash; "ko", "re", "de", "su", "na" (hiragana), "kte", "ksu",
\*   "kto" (katakana), "you", "nai", "yo" (kanji) = the other characters of
\*   EXAMPLE_TEXT; every other name is the ASCII character itself.
\* ------------------------------------------------------------------------
\* JAPANESE_CHARS = "[U+3041-U+3093 U+30A1-U+30F3 U+4E00-U+9FAF]", restricted
\* to the characters of the model
JAPANESE_CHARS ==
    { "watashi", "ju", "you", "nai", "yo",
      "ha", "ga", "ko", "re", "de", "su", "na",
      "kte", "ksu", "kto" }

\* str.isspace, restricted to the characters of the model
IsSpace(c) == c \in {" ", "nl", "zsp"}

is_japanese_text(w) == \E i \in 1..Len(w) : w[i] \in JAPANESE_CHARS

\* the ASCII letters of the classified words (they are lower-case, so the
\* re.I flag changes nothing)
LETTERS == {"a", "i", "s", "r", "y"}

\* the characters of the words the model classifies
CLASSIFIED_CHARS == LETTERS \cup {"watashi", "ju", "ha", "ga", ".", " "}

\* the regex class \w, among the characters of the classified words and the
\* Japanese characters
WORD_CHARS == LETTERS \cup JAPANESE_CHARS

\* ------------------------------------------------------------------------
\* Regular expressions of the pattern tables, matched as re.match does (at
\* the start of the word).  A pattern is one of
\*   [kind |-> "words", alts |-> S]   (?:w1|w2|...)\b, with or without a
\*                                     leading \b
\*   [kind |-> "suffix", alts |-> S]  \b[a-z]+(?:e1|e2|...)\b
\*   [kind |-> "run", chars |-> S]    [chars]+
\* The words the model classifies are made of the characters of
\* CLASSIFIED_CHARS: each alts set holds the alternatives of the source
\* pattern that can be spelled with them, and a pattern that matches no such
\* word is left out.
\* ------------------------------------------------------------------------
HasPrefix(w, a) == Len(a) <= Len(w) /\ SubSeq(w, 1, Len(a)) = a

\* \b after the first k characters of w
Boundary(w, k) ==
    /\ k >= 1
    /\ k <= Len(w)
    /\ w[k] \in WORD_CHARS
    /\ (k = Len(w) \/ w[k + 1] \notin WORD_CHARS)

MatchWords(w, alts) == \E a \in alts : HasPrefix(w, a) /\ Boundary(w, Len(a))

MatchSuffix(w, ends) ==
    \E k \in 1..Len(w) : \E e \in ends :
        /\ \A j \in 1..k : w[j] \in LETTERS
        /\ k + Len(e) <= Len(w)
        /\ SubSeq(w, k + 1, k + Len(e)) = e
        /\ Boundary(w, k + Len(e))

re_match(pattern, w) ==
    CASE pattern.kind = "words" -> MatchWords(w, pattern.alts)
      [] pattern.kind = "suffix" -> MatchSuffix(w, pattern.alts)
      [] pattern.kind = "run" -> Len(w) >= 1 /\ w[1] \in pattern.chars

Words(S) == [kind |-> "words", alts |-> S]
Suffix(S) == [kind |-> "suffix", alts |-> S]
Run(S) == [kind |-> "run", chars |-> S]

\* constants/english.py
BE_VERBS == Words({<<"i", "s">>})
COMMON_VERBS == Words({<<"s", "a", "y">>})
VERB_ENDINGS == {<<"s">>}
ADJECTIVE_ENDINGS == {<<"y">>}
NOUN_ENDINGS == {<<"r", "y">>, <<"a", "r", "y">>}

\* patterns/en_patterns.py: FUNCTION_WORDS, in dict order.  No preposition can
\* be spelled with the letters of the model.
FUNCTION_WORDS ==
    << [pos |-> "preposition", patterns |-> <<Words({})>>],
       [pos |-> "article", patterns |-> <<Words({<<"a">>})>>],
       [pos |-> "pronoun", patterns |-> <<Words({<<"i">>})>>],
       [pos |-> "conjunction", patterns |-> <<Words({<<"a", "s">>})>>] >>

\* patterns/en_patterns.py: INDEPENDENT_WORDS, in dict order.  The proper-noun
\* and compound-noun patterns embed the repr of a compiled pattern and the
\* word lists of nouns, adjectives and adverbs need other letters: none of
\* them matches a word of the model.
EN_INDEPENDENT_WORDS ==
    << [pos |-> "noun", patterns |-> <<Suffix(NOUN_ENDINGS)>>],
       [pos |-> "verb",
        patterns |-> <<BE_VERBS, COMMON_VERBS, Suffix(VERB_ENDINGS)>>],
       [pos |-> "adjective", patterns |-> <<Suffix(ADJECTIVE_ENDINGS)>>],
       [pos |-> "adverb", patterns |-> <<Words({})>>] >>

\* patterns/jp_patterns.py: DEPENDENT_WORDS, in dict order.
\* "joshi" = particle, "jodoshi" = auxiliary verb.
DEPENDENT_WORDS ==
    << [pos |-> "joshi",
        patterns |-> <<Words({<<"ga">>}), Words({<<"ha">>})>>],
       [pos |-> "jodoshi", patterns |-> <<Words({})>>] >>

\* patterns/jp_patterns.py: INDEPENDENT_WORDS, in dict order.  "meishi" = noun:
\* KANJI, HIRAGANA (KATAKANA has no character in the model), ALPHA_NUM.  A word
\* that starts with a Japanese character matches KANJI or HIRAGANA, so the
\* later categories are never consulted for it.
JP_INDEPENDENT_WORDS ==
    << [pos |-> "meishi",
        patterns |-> <<Run({"watashi", "ju"}), Run({"ha", "ga"}),
                       Run(LETTERS)>>] >>

\* ------------------------------------------------------------------------
\* TrendAnalyzer: part of speech and base importance of a word.
\* Importance values are in units of 1/10000 (2.0 = 20000).
\* ------------------------------------------------------------------------
IMPORTANCE_INDEPENDENT == 20000
IMPORTANCE_DEPENDENT == 5000
IMPORTANCE_SYMBOL == 1000
IMPORTANCE_CAP == 30000
IMPORTANCE_SKIP == 5000

_match_patterns(word, patterns) ==
    \E i \in 1..Len(patterns) : re_match(patterns[i], word)

\* index of the first category of the table with a matching pattern, 0 if none
FirstCategory(table, word) ==
    LET S == {i \in 1..Len(table) : _match_patterns(word, table[i].patterns)}
    IN  IF S = {} THEN 0 ELSE CHOOSE i \in S : \A j \in S : i <= j

\* "kigo" = symbol
_identify_japanese_pos(word) ==
    LET d == FirstCategory(DEPENDENT_WORDS, word)
        n == FirstCategory(JP_INDEPENDENT_WORDS, word)
    IN  IF d # 0
        THEN [pos |-> DEPENDENT_WORDS[d].pos, importance |-> IMPORTANCE_DEPENDENT]
        ELSE IF n # 0
        THEN [pos |-> JP_INDEPENDENT_WORDS[n].pos,
              importance |-> IMPORTANCE_INDEPENDENT]
        ELSE [pos |-> "kigo", importance |-> IMPORTANCE_SYMBOL]

_identify_english_pos(word) ==
    LET f == FirstCategory(FUNCTION_WORDS, word)
        n == FirstCategory(EN_INDEPENDENT_WORDS, word)
    IN  IF re_match(BE_VERBS, word) \/ re_match(COMMON_VERBS, word)
        THEN [pos |-> "verb", importance |-> IMPORTANCE_INDEPENDENT]
        ELSE IF f # 0
        THEN [pos |-> FUNCTION_WORDS[f].pos, importance |-> IMPORTANCE_DEPENDENT]
        ELSE IF n # 0
        THEN [pos |-> EN_INDEPENDENT_WORDS[n].pos,
              importance |-> IMPORTANCE_INDEPENDENT]
        ELSE [pos |-> "symbol", importance |-> IMPORTANCE_SYMBOL]

_identify_part_of_speech(word) ==
    IF is_japanese_text(word)
    THEN _identify_japanese_pos(word)
    ELSE _identify_english_pos(word)

\* TrendAnalyzer._extract_words: the words of a text, in order
RECURSIVE ExtractFrom(_, _, _, _)
ExtractFrom(txt, i, ws, current_word) ==
    LET flushed == IF current_word # <<>>
                   THEN Append(ws, current_word) ELSE ws
    IN  IF i > Len(txt) THEN flushed
        ELSE IF IsSpace(txt[i]) THEN ExtractFrom(txt, i + 1, flushed, <<>>)
        ELSE IF is_japanese_text(<<txt[i]>>)
        THEN ExtractFrom(txt, i + 1, flushed, <<txt[i]>>)
        ELSE IF is_japanese_text(current_word)
        THEN ExtractFrom(txt, i + 1, flushed, <<txt[i]>>)
        ELSE ExtractFrom(txt, i + 1, ws, current_word \o <<txt[i]>>)

_extract_words(txt) == ExtractFrom(txt, 1, <<>>, <<>>)

\* TRAILING_SYMBOLS, "[[<punctuation>][<exclamation>][<brackets>]]$": the two
\* nested brackets end the first class early, so the pattern is a punctuation
\* mark or "[", then an exclamation mark, then a bracket, then "]", at the
\* end of the word.  trailing_symbols.sub("", word) removes that suffix.
TS_PUNCT == {"[", "ten", "maru", "zcomma", ",", "."}
TS_EXCLAIM == {"!", "?"}
TS_BRACKET == {"lq", "rq", "(", ")", "[", "]", "{", "}"}

trailing_symbols_sub(word) ==
    LET n == Len(word)
    IN  IF /\ n >= 4
           /\ word[n - 3] \in TS_PUNCT
           /\ word[n - 2] \in TS_EXCLAIM
           /\ word[n - 1] \in TS_BRACKET
           /\ word[n] = "]"
        THEN SubSeq(word, 1, n - 4)
        ELSE word

\* ------------------------------------------------------------------------
\* tokenizer.preprocess_text
\* ------------------------------------------------------------------------
\* str.strip()
RECURSIVE lstrip(_)
lstrip(s) ==
    IF s # <<>> /\ IsSpace(s[1]) THEN lstrip(Tail(s)) ELSE s

RECURSIVE rstrip(_)
rstrip(s) ==
    IF s # <<>> /\ IsSpace(Last(s)) THEN rstrip(Front(s)) ELSE s

strip(s) == rstrip(lstrip(s))

\* the length of the longest run of characters of class C that starts at s[i]
RECURSIVE RunLen(_, _, _)
RunLen(s, i, C) ==
    IF i <= Len(s) /\ s[i] \in C THEN 1 + RunLen(s, i + 1, C) ELSE 0

\* re.sub("[C]{least,}", repl, s): every maximal run of at least `least`
\* characters of class C is replaced by repl
RECURSIVE SubRunsFrom(_, _, _, _, _)
SubRunsFrom(s, i, C, least, repl) ==
    IF i > Len(s) THEN <<>>
    ELSE LET n == RunLen(s, i, C)
         IN  IF n >= least
             THEN repl \o SubRunsFrom(s, i + n, C, least, repl)
             ELSE <<s[i]>> \o SubRunsFrom(s, i + 1, C, least, repl)

re_sub_runs(C, least, repl, s) == SubRunsFrom(s, 1, C, least, repl)

\* the two str.translate tables: full-width alphanumerics, then full-width
\* marks (the ideographic comma included), to their ASCII counterparts
HalfWidth(c) ==
    CASE c = "zA" -> "A"
      [] c = "ten" -> ","
      [] c = "zcomma" -> ","
      [] OTHER -> c

translate(s) == [i \in 1..Len(s) |-> HalfWidth(s[i])]

WHITESPACE_CHARS == {" ", "nl", "zsp"}
CONTROL_CHARS == {"ctl", "nl"}
PERIOD_CHARS == {"maru", "zdot", "."}
COMMA_CHARS == {"ten", "zcomma", ","}

preprocess_text(x) ==
    IF x = <<>> THEN <<>>
    ELSE LET spaced == re_sub_runs(WHITESPACE_CHARS, 1, <<" ">>, strip(x))
             half == translate(spaced)
             clean == re_sub_runs(CONTROL_CHARS, 1, <<>>, half)
             periods == re_sub_runs(PERIOD_CHARS, 2, <<"maru">>, clean)
             commas == re_sub_runs(COMMA_CHARS, 2, <<"ten">>, periods)
         IN  strip(commas)

\* ------------------------------------------------------------------------
\* tokenizer._is_balanced
\* ------------------------------------------------------------------------
\* pairs, as the set of <<opener, closer>>
PAIRS ==
    { <<"lq", "rq">>, <<"dlq", "drq">>, <<"(", ")">>, <<"zlp", "zrp">>,
      <<"[", "]">>, <<"zlb", "zrb">>, <<"{", "}">>, <<"zlc", "zrc">>,
      <<"zlt", "zgt">>, <<"<", ">">> }

OPENERS == {pr[1] : pr \in PAIRS}
CLOSERS == {pr[2] : pr \in PAIRS}
CloserOf(c) == (CHOOSE pr \in PAIRS : pr[1] = c)[2]

\* the loop of _is_balanced from text[i] on.  The test for the backslash
\* comes before the test of the escaped flag.
RECURSIVE BalancedFrom(_, _, _, _)
BalancedFrom(t, i, stack, escaped) ==
    IF i > Len(t) THEN stack = <<>>
    ELSE IF t[i] = "bs" THEN BalancedFrom(t, i + 1, stack, TRUE)
    ELSE IF escaped THEN BalancedFrom(t, i + 1, stack, FALSE)
    ELSE IF t[i] \in OPENERS
    THEN BalancedFrom(t, i + 1, Append(stack, t[i]), FALSE)
    ELSE IF t[i] \in CLOSERS
    THEN IF stack = <<>> THEN FALSE
         ELSE IF CloserOf(Last(stack)) # t[i] THEN FALSE
         ELSE BalancedFrom(t, i + 1, Front(stack), FALSE)
    ELSE BalancedFrom(t, i + 1, stack, FALSE)

_is_balanced(t) == BalancedFrom(t, 1, <<>>, FALSE)

\* ------------------------------------------------------------------------
\* tokenizer.split_sentences
\* ------------------------------------------------------------------------
\* the character classes of pattern and list_pattern
TERMINAL_PUNCT == {"maru", "zbang", "zq", "!", "?", "zdot", "."}
LOOKAHEAD_BRACKETS == {"lq", "rq", "dlq", "drq", "zlp", "zrp", "(", ")"}
ABBREVIATIONS ==
    { <<"M", "r">>, <<"M", "r", "s">>, <<"D", "r">>, <<"J", "r">>,
      <<"S", "r">>, <<"L", "t", "d">>, <<"I", "n", "c">> }
DIGITS == {"1"}
LIST_CLOSERS == {".", ")", "zrb", "rlb"}
BULLETS == {"-", "*", "nakaguro"}

\* the characters just before t[i] are a
PrecededBy(t, i, a) ==
    i - Len(a) >= 1 /\ SubSeq(t, i - Len(a), i - 1) = a

\* the negative lookbehinds (?<!\.\.)(?<!Mr)...(?<!Inc) at t[i]
LookbehindOK(t, i) ==
    /\ ~PrecededBy(t, i, <<".", ".">>)
    /\ \A a \in ABBREVIATIONS : ~PrecededBy(t, i, a)

\* the lookahead at t[j]: up to the end of the text there is no bracket of
\* the class, or exactly one and it is t[j]
LookaheadOK(t, j) ==
    LET B == {k \in j..Len(t) : t[k] \in LOOKAHEAD_BRACKETS}
    IN  B = {} \/ B = {j}

\* pattern matched at t[i]: the index after the match, 0 if there is none.
\* "[...]+[\s]*" is greedy and gives characters back until the lookahead
\* holds, so the match is the longest prefix of the run of punctuation and
\* the whitespace after it at whose end the lookahead holds.
MatchEnd(t, i) ==
    LET p == RunLen(t, i, TERMINAL_PUNCT)
        w == RunLen(t, i + p, WHITESPACE_CHARS)
        E == {e \in (i + 1)..(i + p + w) : LookaheadOK(t, e)}
    IN  IF p = 0 \/ ~LookbehindOK(t, i) \/ E = {} THEN 0
        ELSE CHOOSE e \in E : \A f \in E : f <= e

\* re.split(pattern, text): the piece that starts at t[start] is being
\* scanned at t[i]
RECURSIVE SplitFrom(_, _, _)
SplitFrom(t, start, i) ==
    IF i > Len(t) THEN <<SubSeq(t, start, Len(t))>>
    ELSE IF MatchEnd(t, i) # 0
    THEN <<SubSeq(t, start, i - 1)>> \o SplitFrom(t, MatchEnd(t, i), MatchEnd(t, i))
    ELSE SplitFrom(t, start, i + 1)

\* "(?:\d+[\.)...]|\-|\*|...)" at t[m]: the length of the list marker, 0 if
\* there is none
MarkerLen(t, m) ==
    LET d == RunLen(t, m, DIGITS)
    IN  IF m > Len(t) THEN 0
        ELSE IF t[m] \in BULLETS THEN 1
        ELSE IF d >= 1 /\ m + d <= Len(t) /\ t[m + d] \in LIST_CLOSERS
        THEN d + 1
        ELSE 0

\* list_pattern matched at t[i]: the index of its marker, 0 if there is no
\* match.  "(?:^|\n)": the marker is at the start of the fragment or follows
\* a line feed.
MarkerAt(t, i) ==
    IF i = 1 /\ MarkerLen(t, 1) > 0 THEN 1
    ELSE IF t[i] = "nl" /\ MarkerLen(t, i + 1) > 0 THEN i + 1
    ELSE 0

\* re.split(list_pattern, s)
RECURSIVE ListSplitFrom(_, _, _)
ListSplitFrom(t, start, i) ==
    IF i > Len(t) THEN <<SubSeq(t, start, Len(t))>>
    ELSE LET m == MarkerAt(t, i)
             e == m + MarkerLen(t, m)
             f == e + RunLen(t, e, WHITESPACE_CHARS)
         IN  IF m # 0
             THEN <<SubSeq(t, start, i - 1)>> \o ListSplitFrom(t, f, f)
             ELSE ListSplitFrom(t, start, i + 1)

\* "current += piece; if _is_balanced(current): sentences.append(
\* current.strip()); current = ''", on acc = [sentences, current]
Accumulate(acc, piece) ==
    LET cur == acc.current \o piece
    IN  IF _is_balanced(cur)
        THEN [sentences |-> Append(acc.sentences, strip(cur)), current |-> <<>>]
        ELSE [sentences |-> acc.sentences, current |-> cur]

\* the loop over the list items of one fragment
RECURSIVE AccumulateItems(_, _, _)
AccumulateItems(acc, items, k) ==
    IF k > Len(items) THEN acc
    ELSE IF strip(items[k]) # <<>>
    THEN AccumulateItems(Accumulate(acc, items[k]), items, k + 1)
    ELSE AccumulateItems(acc, items, k + 1)

\* the loop over raw_sentences
RECURSIVE AccumulateFragments(_, _, _)
AccumulateFragments(acc, raw, k) ==
    IF k > Len(raw) THEN acc
    ELSE LET list_items == ListSplitFrom(raw[k], 1, 1)
         IN  IF Len(list_items) > 1
             THEN AccumulateFragments(AccumulateItems(acc, list_items, 1),
                                      raw, k + 1)
             ELSE AccumulateFragments(Accumulate(acc, raw[k]), raw, k + 1)

split_sentences(t) ==
    LET raw_sentences == SplitFrom(t, 1, 1)
        acc == AccumulateFragments([sentences |-> <<>>, current |-> <<>>],
                                   raw_sentences, 1)
        all == IF acc.current # <<>>
               THEN Append(acc.sentences, strip(acc.current))
               ELSE acc.sentences
    IN  SelectSeq(all, LAMBDA x : x # <<>>)

\* ------------------------------------------------------------------------
\* tokenizer.tokenize_sentence
\* ------------------------------------------------------------------------
\* the characters of the model that are not ASCII
NON_ASCII_CHARS ==
    JAPANESE_CHARS \cup
    { "maru", "ten", "zcomma", "zdot", "zA", "zsp", "lq", "rq", "dlq", "drq",
      "zlp", "zrp", "zlb", "zrb", "zlc", "zrc", "zlt", "zgt", "zbang", "zq",
      "nakaguro", "rlb" }

\* str.isascii
isascii(w) == \A i \in 1..Len(w) : w[i] \notin NON_ASCII_CHARS

\* str.isalpha, for an ASCII string
ASCII_ALPHA ==
    LETTERS \cup {"A", "D", "I", "J", "L", "M", "S", "c", "d", "n", "t"}
isalpha(w) == w # <<>> /\ \A i \in 1..Len(w) : w[i] \in ASCII_ALPHA

\* "[U+306F U+304C ...]", the particles of _create_token, and "[U+3042-U+3093]"
TOKEN_PARTICLES == {"ha", "ga", "de"}
HIRAGANA_CHARS == {"ha", "ga", "ko", "re", "de", "su", "na"}

\* "joshi" = particle, "doshi" = verb, "meishi" = noun
_create_token(w) ==
    LET pos == IF is_japanese_text(w)
               THEN IF w[1] \in TOKEN_PARTICLES THEN "joshi"
                    ELSE IF w[1] \in HIRAGANA_CHARS THEN "doshi"
                    ELSE "meishi"
               ELSE IF isascii(w)
               THEN IF w \in {<<"a">>, <<"A">>, <<"a", "n">>, <<"A", "n">>}
                    THEN "article"
                    ELSE IF isalpha(w) THEN "word"
                    ELSE "symbol"
               ELSE "unknown"
        language == IF is_japanese_text(w) THEN "JAPANESE"
                    ELSE IF isascii(w) THEN "ENGLISH"
                    ELSE "UNKNOWN"
    IN  [text |-> w, pos |-> pos, language |-> language, is_compound |-> FALSE]

TOKEN_SEPARATORS == {"ten", "zcomma", ",", "maru", "zdot", "."}

\* variant: a Japanese character is of the same kind as any other character
\* that is not ASCII
CharType_no_script(c) == IF isascii(<<c>>) THEN "en" ELSE "other"

CharType(c) ==
    IF c \in JAPANESE_CHARS THEN "jp"
    ELSE IF isascii(<<c>>) THEN "en"
    ELSE "other"

\* "if current_word: tokens.append(_create_token(current_word))"
FlushToken(tokens, current_word) ==
    IF current_word # <<>>
    THEN Append(tokens, _create_token(current_word))
    ELSE tokens

\* the loop of tokenize_sentence from sentence[i] on; current_type is "none"
\* for None
RECURSIVE TokenizeLoop(_, _, _, _, _)
TokenizeLoop(sentence, i, tokens, current_word, current_type) ==
    IF i > Len(sentence)
    THEN [tokens |-> tokens, current_word |-> current_word]
    ELSE LET char == sentence[i]
             char_type == CharType(char)
         IN  IF char \in TOKEN_SEPARATORS \/ IsSpace(char)
             THEN TokenizeLoop(sentence, i + 1,
                               FlushToken(tokens, current_word), <<>>, "none")
             ELSE IF current_type # char_type \/ char_type = "jp"
             THEN TokenizeLoop(sentence, i + 1,
                               FlushToken(tokens, current_word), <<char>>,
                               char_type)
             ELSE TokenizeLoop(sentence, i + 1, tokens,
                               Append(current_word, char), current_type)

\* variant: the word still being built at the end of the sentence is dropped
tokenize_sentence_no_rest(sentence) ==
    TokenizeLoop(sentence, 1, <<>>, <<>>, "none").tokens

tokenize_sentence(sentence) ==
    LET end == TokenizeLoop(sentence, 1, <<>>, <<>>, "none")
    IN  FlushToken(end.tokens, end.current_word)

\* ------------------------------------------------------------------------
\* TrendAnalyzer: importance in context.  An exact product of the factors
\* stands for the floating-point product: rounding changes neither the sign
\* of a value nor the result of min(..., 3.0).
\* ------------------------------------------------------------------------
\* importance * num / 10
Times(importance, num) == (importance * num) \div 10

\* variant: a word that is first and last is raised for each of the two
_adjust_by_position_twice(importance, index, length) ==
    LET first == IF index = 1 THEN Times(importance, 12) ELSE importance
    IN  IF index = length THEN Times(first, 12) ELSE first

\* index is 1 for the first word (the source counts from 0)
_adjust_by_position(importance, index, length) ==
    IF index = 1 \/ index = length THEN Times(importance, 12) ELSE importance

_adjust_by_context(importance, word, prev_words, next_words) ==
    IF word \in Range(prev_words) \/ word \in Range(next_words)
    THEN Times(importance, 15)
    ELSE importance

\* constants/particles.py, the particles of one character of the model
IMPORTANT_PARTICLES == {<<"ha">>, <<"ga">>, <<"de">>}

_adjust_by_grammar(importance, word, pos, ws, index) ==
    IF is_japanese_text(word)
    THEN IF /\ pos = "meishi"
            /\ index < Len(ws)
            /\ ws[index + 1] \in IMPORTANT_PARTICLES
         THEN Times(importance, 13)
         ELSE IF pos = "doshi" /\ index = Len(ws)
         THEN Times(importance, 12)
         ELSE importance
    ELSE IF /\ pos = "noun"
            /\ index > 1
            /\ _identify_part_of_speech(ws[index - 1]).pos
                   \in {"article", "adjective"}
         THEN Times(importance, 13)
         ELSE IF /\ pos = "verb"
                 /\ index > 1
                 /\ _identify_part_of_speech(ws[index - 1]).pos
                        \in {"noun", "pronoun"}
         THEN Times(importance, 12)
         ELSE importance

Min(a, b) == IF a <= b THEN a ELSE b

\* variant: the adjusted value returned without the cap
_adjust_importance_uncapped(word, pos, base_importance, current_words, current_index, prev_words, next_words) ==
    _adjust_by_grammar(
        _adjust_by_context(
            _adjust_by_position(base_importance, current_index,
                                Len(current_words)),
            word, prev_words, next_words),
        word, pos, current_words, current_index)

_adjust_importance(word, pos, base_importance, current_words, current_index, prev_words, next_words) ==
    Min(_adjust_by_grammar(
            _adjust_by_context(
                _adjust_by_position(base_importance, current_index,
                                    Len(current_words)),
                word, prev_words, next_words),
            word, pos, current_words, current_index),
        IMPORTANCE_CAP)

\* an entry of a result list (its colour is left out)
Entry(word, pos, importance) ==
    [word |-> word, pos |-> pos, importance |-> importance]

\* prev_sentence and next_sentence: <<>> stands for None as well as for ""
_analyze_with_context(sentence, prev_sentence, next_sentence) ==
    LET ws == _extract_words(sentence)
        prev_words == _extract_words(prev_sentence)
        next_words == _extract_words(next_sentence)
    IN  [i \in 1..Len(ws) |->
            LET c == _identify_part_of_speech(ws[i])
            IN  Entry(ws[i], c.pos,
                      _adjust_importance(ws[i], c.pos, c.importance, ws, i,
                                         prev_words, next_words))]

\* ------------------------------------------------------------------------
\* TrendAnalyzer.analyze
\* ------------------------------------------------------------------------
\* SENTENCE_SEPARATORS: three alternatives "(?<=[behind])\s*(?=ahead)":
\*   after punctuation, before a character outside a class or at the end;
\*   after a line feed, before a character that is no whitespace;
\*   after a closing bracket, before a character outside a class.
CLOSING_BRACKETS == {"rq", "drq", "zrp", "]", "zrc", "}"}
NOT_AFTER_PUNCT == CLOSING_BRACKETS \cup {"ten"} \cup TERMINAL_PUNCT
NOT_AFTER_BRACKET == {"ten"} \cup TERMINAL_PUNCT

SeparatorAhead(t, alt, j) ==
    CASE alt = 1 -> j > Len(t) \/ t[j] \notin NOT_AFTER_PUNCT
      [] alt = 2 -> j <= Len(t) /\ ~IsSpace(t[j])
      [] alt = 3 -> j <= Len(t) /\ t[j] \notin NOT_AFTER_BRACKET

SeparatorBehind(alt) ==
    CASE alt = 1 -> TERMINAL_PUNCT
      [] alt = 2 -> {"nl"}
      [] alt = 3 -> CLOSING_BRACKETS

\* the numbers of whitespace characters alternative alt can match before t[j]
SeparatorWidths(t, alt, j, must_advance) ==
    IF j >= 2 /\ t[j - 1] \in SeparatorBehind(alt)
    THEN {k \in 0..RunLen(t, j, WHITESPACE_CHARS) :
             SeparatorAhead(t, alt, j + k) /\ (must_advance => k > 0)}
    ELSE {}

\* the separator matched before t[j]: the index after the match, 0 if there
\* is none.  The first alternative that matches is taken, with the most
\* whitespace; an empty match is refused right after an empty match.
SeparatorEnd(t, j, must_advance) ==
    LET alts == {a \in 1..3 : SeparatorWidths(t, a, j, must_advance) # {}}
        alt == CHOOSE a \in alts : \A b \in alts : a <= b
        K == SeparatorWidths(t, alt, j, must_advance)
    IN  IF alts = {} THEN 0
        ELSE j + (CHOOSE k \in K : \A m \in K : m <= k)

\* self.sentence_separators.split(text)
RECURSIVE SeparatorSplitFrom(_, _, _, _)
SeparatorSplitFrom(t, start, j, must_advance) ==
    IF j > Len(t) + 1 THEN <<SubSeq(t, start, Len(t))>>
    ELSE LET e == SeparatorEnd(t, j, must_advance)
         IN  IF e # 0
             THEN <<SubSeq(t, start, j - 1)>>
                      \o SeparatorSplitFrom(t, e, e, e = j)
             ELSE SeparatorSplitFrom(t, start, j + 1, FALSE)

\* "sentences = [s.strip() for s in sentences if s.strip()]"
Sentences(t) ==
    LET pieces == SeparatorSplitFrom(t, 1, 1, FALSE)
        stripped == [i \in 1..Len(pieces) |-> strip(pieces[i])]
    IN  SelectSeq(stripped, LAMBDA x : x # <<>>)

\* the entry added between two sentences
SEPARATOR_ENTRY == Entry(<<"maru">>, "kigo", IMPORTANCE_SYMBOL)

\* the entries of sentences[i..]
RECURSIVE AnalyzeFrom(_, _)
AnalyzeFrom(sentences, i) ==
    IF i > Len(sentences) THEN <<>>
    ELSE _analyze_with_context(
             sentences[i],
             IF i > 1 THEN sentences[i - 1] ELSE <<>>,
             IF i < Len(sentences) THEN sentences[i + 1] ELSE <<>>)
         \o (IF i < Len(sentences) THEN <<SEPARATOR_ENTRY>> ELSE <<>>)
         \o AnalyzeFrom(sentences, i + 1)

analyze(t) == AnalyzeFrom(Sentences(t), 1)

\* ------------------------------------------------------------------------
\* State
\* ------------------------------------------------------------------------
VARIABLES
    store,     \* committed rows of table "trends": records [id, keyword, count]
    store0,    \* the rows of the table before the first pass (never changes)
    writer,    \* the pass whose session holds SQLite's write lock, 0 if none
    pc,        \* pc[p]: position of pass p in "with get_db() as db: update_trends"
    text,      \* text[p]: the text pass p analyses
    idx,       \* idx[p]: index in words[p] of the word the loop is at
    sel,       \* sel[p]: the row fetched by the select for the current word
    pending,   \* pending[p]: the uncommitted write of p's session
    trends,    \* trends[p]: update_trends' result list
    exc,       \* exc[p]: the exception in flight in pass p
    outcome,   \* outcome[p]: what the caller of the with-block received
    evlog,     \* evlog[p]: the session events of pass p, in order
    call,      \* the call of a pure text function being examined
    ret,       \* its result
    cache,     \* ScoringCalculator._compile_regex_cache of the shared scoring
    sc         \* sc[t]: the scoring call thread t is in

storeVars == <<store, store0, writer, pc, text, idx, sel, pending, trends,
               exc, outcome, evlog>>
textVars == <<call, ret>>
scoreVars == <<cache, sc>>
vars == <<store, store0, writer, pc, text, idx, sel, pending, trends, exc,
          outcome, evlog, call, ret, cache, sc>>

\* ------------------------------------------------------------------------
\* The trend store (models.Trend on SQLite)
\* ------------------------------------------------------------------------
Row(id, k, c) == [id |-> id, keyword |-> k, count |-> c]

\* select(Trend.id, Trend.keyword, Trend.count).where(keyword == k).fetchone()
SelectByKeyword(rows, k) ==
    IF \E r \in rows : r.keyword = k
    THEN CHOOSE r \in rows : r.keyword = k
    ELSE None

\* variant: a table without the unique constraint on keyword
UniqueViolation_Off(rows, k) == FALSE

\* Trend.keyword is unique=True: an insert of a stored keyword is rejected
UniqueViolation(rows, k) == \E r \in rows : r.keyword = k

\* Trend.id is an autoincrement primary key
NextId(rows) ==
    IF rows = {} THEN 1
    ELSE 1 + (CHOOSE m \in {r.id : r \in rows} : \A r \in rows : r.id <= m)

\* the rows after a write is applied
ApplyWrite(rows, w) ==
    IF w.op = "update"
    THEN {IF r.id = w.id THEN Row(r.id, r.keyword, w.count) ELSE r : r \in rows}
    ELSE rows \cup {Row(w.id, w.keyword, w.count)}

CountOf(rows, k) ==
    IF \E r \in rows : r.keyword = k
    THEN (CHOOSE r \in rows : r.keyword = k).count
    ELSE 0

\* ------------------------------------------------------------------------
\* Inputs of the passes
\* ------------------------------------------------------------------------
TREND_CHARS == {"watashi", "ha"}

\* the number of characters of the texts of the passes 1..n
RECURSIVE CharsUsed(_, _)
CharsUsed(t, n) ==
    IF n = 0 THEN 0 ELSE Len(t[n]) + CharsUsed(t, n - 1)

\* the request text reaching update_trends is stripped and not empty
TrendTexts(n) == Strs(TREND_CHARS, n) \ {<<>>}

InitStores ==
    {{}} \cup {{Row(1, <<"watashi">>, c)} : c \in 1..MaxInitCount}

\* a session event: what happened, the keyword it was about, and for a failed
\* statement the error the store raised
Event(e, k) == [ev |-> e, kw |-> k, err |-> NoError]
Failure(k, x) == [ev |-> "fail", kw |-> k, err |-> x]

\* the word the loop of update_trends is at, and what the loop does with it
WordsOf(p) == _extract_words(text[p])
CurWord(p) == WordsOf(p)[idx[p]]
CurKeyword(p) == trailing_symbols_sub(CurWord(p))
Skipped(word) ==
    \/ _identify_part_of_speech(word).importance <= IMPORTANCE_SKIP
    \/ trailing_symbols_sub(word) = <<>>

InitStore ==
    /\ store \in InitStores
    /\ store0 = store
    /\ writer = 0
    /\ pc = [p \in Passes |-> "idle"]
    /\ text = [p \in Passes |-> <<>>]
    /\ idx = [p \in Passes |-> 1]
    /\ sel = [p \in Passes |-> None]
    /\ pending = [p \in Passes |-> None]
    /\ trends = [p \in Passes |-> <<>>]
    /\ exc = [p \in Passes |-> NoError]
    /\ outcome = [p \in Passes |-> NoError]
    /\ evlog = [p \in Passes |-> <<>>]

\* the request threads that share the one TrendScoring of the application
Threads == 1..MaxThreads

\* a thread that is in no scoring call
IdleCall ==
    [pc |-> "idle", count |-> 0, hours_old |-> 0, keyword |-> <<>>,
     jp_patterns |-> "none", en_patterns |-> "none", pos |-> 0,
     max_weight |-> 0, searched |-> 0, exc |-> NoError,
     val |-> 0]

\* ScoringCalculator.__init__: self._compile_regex_cache = {}
InitScoring ==
    /\ cache = {}
    /\ sc = [t \in Threads |-> IdleCall]

InitText ==
    /\ call = None
    /\ ret = None
    /\ InitScoring

Init == InitStore /\ InitText

\* ------------------------------------------------------------------------
\* One request: "with get_db() as db: trends = analyzer.update_trends(db, text)"
\* ------------------------------------------------------------------------
\* get_db: db = SessionLocal(); yield db.  update_trends: trends = [];
\* words = self._extract_words(text).  The passes are numbered in the order
\* in which their requests open a session.
get_db_enter(p) ==
    /\ pc[p] = "idle"
    /\ \A q \in Passes : q < p => pc[q] # "idle"
    /\ \E t \in TrendTexts(MaxChars - CharsUsed(text, MaxChars)) :
        text' = [text EXCEPT ![p] = t]
    /\ pc' = [pc EXCEPT ![p] = "loop"]
    /\ evlog' = [evlog EXCEPT ![p] = Append(@, Event("open", <<>>))]
    /\ UNCHANGED <<store, store0, writer, idx, sel, pending, trends, exc,
                   outcome, call, ret, cache, sc>>

\* variant: an iteration that also skips a word whose keyword this pass has
\* already written (one write per distinct keyword)
ut_next_word_distinct(p) ==
    /\ pc[p] = "loop"
    /\ idx[p] <= Len(WordsOf(p))
    /\ IF \/ Skipped(CurWord(p))
          \/ \E i \in 1..Len(evlog[p]) :
                /\ evlog[p][i].ev \in {"update", "insert"}
                /\ evlog[p][i].kw = CurKeyword(p)
       THEN /\ idx' = [idx EXCEPT ![p] = @ + 1]
            /\ UNCHANGED <<pc, sel, evlog>>
       ELSE /\ sel' = [sel EXCEPT ![p] = SelectByKeyword(store, CurKeyword(p))]
            /\ pc' = [pc EXCEPT ![p] = "write"]
            /\ evlog' = [evlog EXCEPT ![p] =
                            Append(@, Event("select", CurKeyword(p)))]
            /\ UNCHANGED idx
    /\ UNCHANGED <<store, store0, writer, text, pending, trends, exc,
                   outcome, call, ret, cache, sc>>

\* update_trends, one iteration up to the select: a word of low importance
\* or one that is empty after stripping is skipped ("continue"), any other
\* word is looked up
ut_next_word(p) ==
    /\ pc[p] = "loop"
    /\ idx[p] <= Len(WordsOf(p))
    /\ IF Skipped(CurWord(p))
       THEN /\ idx' = [idx EXCEPT ![p] = @ + 1]
            /\ UNCHANGED <<pc, sel, evlog>>
       ELSE /\ sel' = [sel EXCEPT ![p] = SelectByKeyword(store, CurKeyword(p))]
            /\ pc' = [pc EXCEPT ![p] = "write"]
            /\ evlog' = [evlog EXCEPT ![p] =
                            Append(@, Event("select", CurKeyword(p)))]
            /\ UNCHANGED idx
    /\ UNCHANGED <<store, store0, writer, text, pending, trends, exc,
                   outcome, call, ret, cache, sc>>

\* update_trends: "UPDATE trends SET count = :count WHERE id = :id" with
\* count = result[2] + 1; the appended result is the row the select returned
ut_update(p) ==
    /\ pc[p] = "write"
    /\ sel[p] # None
    /\ writer = 0
    /\ writer' = p
    /\ pending' = [pending EXCEPT ![p] =
                      [op |-> "update", id |-> sel[p].id,
                       keyword |-> sel[p].keyword, count |-> sel[p].count + 1]]
    /\ trends' = [trends EXCEPT ![p] = Append(@, sel[p])]
    /\ evlog' = [evlog EXCEPT ![p] = Append(@, Event("update", sel[p].keyword))]
    /\ pc' = [pc EXCEPT ![p] = "commit"]
    /\ UNCHANGED <<store, store0, text, idx, sel, exc, outcome, call, ret, cache, sc>>

\* update_trends: "INSERT INTO trends (keyword, count, created_at) ...
\* RETURNING id, keyword, count"; the store rejects a keyword it already holds
ut_insert(p) ==
    /\ pc[p] = "write"
    /\ sel[p] = None
    /\ writer = 0
    /\ writer' = p
    /\ IF UniqueViolation(store, CurKeyword(p))
       THEN /\ exc' = [exc EXCEPT ![p] = "IntegrityError"]
            /\ evlog' = [evlog EXCEPT ![p] =
                            Append(@, Failure(CurKeyword(p), "IntegrityError"))]
            /\ pc' = [pc EXCEPT ![p] = "except"]
            /\ UNCHANGED <<pending, trends>>
       ELSE /\ pending' = [pending EXCEPT ![p] =
                              [op |-> "insert", id |-> NextId(store),
                               keyword |-> CurKeyword(p), count |-> 1]]
            /\ trends' = [trends EXCEPT ![p] =
                             Append(@, Row(NextId(store), CurKeyword(p), 1))]
            /\ evlog' = [evlog EXCEPT ![p] =
                            Append(@, Event("insert", CurKeyword(p)))]
            /\ pc' = [pc EXCEPT ![p] = "commit"]
            /\ UNCHANGED exc
    /\ UNCHANGED <<store, store0, text, idx, sel, outcome, call, ret, cache, sc>>

\* variant: an iteration that ends without db.commit(), the transaction left
\* to the caller
ut_commit_left_to_caller(p) ==
    /\ pc[p] = "commit"
    /\ idx' = [idx EXCEPT ![p] = @ + 1]
    /\ pc' = [pc EXCEPT ![p] = "loop"]
    /\ UNCHANGED <<store, store0, writer, text, sel, pending, trends, exc,
                   outcome, evlog, call, ret, cache, sc>>

\* update_trends: db.commit() at the end of the iteration
ut_commit(p) ==
    /\ pc[p] = "commit"
    /\ store' = ApplyWrite(store, pending[p])
    /\ writer' = 0
    /\ pending' = [pending EXCEPT ![p] = None]
    /\ idx' = [idx EXCEPT ![p] = @ + 1]
    /\ evlog' = [evlog EXCEPT ![p] = Append(@, Event("commit", <<>>))]
    /\ pc' = [pc EXCEPT ![p] = "loop"]
    /\ UNCHANGED <<store0, text, sel, trends, exc, outcome, call, ret, cache, sc>>

\* update_trends: "return trends" after the last word; the with-block ends
ut_return(p) ==
    /\ pc[p] = "loop"
    /\ idx[p] > Len(WordsOf(p))
    /\ pc' = [pc EXCEPT ![p] = "finally"]
    /\ UNCHANGED <<store, store0, writer, text, idx, sel, pending, trends,
                   exc, outcome, evlog, call, ret, cache, sc>>

\* a statement of update_trends (the select, the update, the insert or the
\* commit) fails in the store, e.g. "database is locked" after the busy
\* timeout: db.execute / db.commit raises and update_trends handles nothing
store_fails(p) ==
    /\ \/ pc[p] = "loop" /\ idx[p] <= Len(WordsOf(p)) /\ ~Skipped(CurWord(p))
       \/ pc[p] = "write"
       \/ pc[p] = "commit"
    /\ exc' = [exc EXCEPT ![p] = "OperationalError"]
    /\ evlog' = [evlog EXCEPT ![p] =
                    Append(@, Failure(CurKeyword(p), "OperationalError"))]
    /\ pc' = [pc EXCEPT ![p] = "except"]
    /\ UNCHANGED <<store, store0, writer, text, idx, sel, pending, trends,
                   outcome, call, ret, cache, sc>>

\* the body of the with-block raises an exception that is no SQLAlchemyError:
\* get_db's except clause does not apply
body_raises_other(p) ==
    /\ pc[p] = "loop"
    /\ exc' = [exc EXCEPT ![p] = "Exception"]
    /\ pc' = [pc EXCEPT ![p] = "finally"]
    /\ UNCHANGED <<store, store0, writer, text, idx, sel, pending, trends,
                   outcome, evlog, call, ret, cache, sc>>

\* variant: an except clause without the "raise"
get_db_except_swallow(p) ==
    /\ pc[p] = "except"
    /\ pending' = [pending EXCEPT ![p] = None]
    /\ writer' = IF writer = p THEN 0 ELSE writer
    /\ exc' = [exc EXCEPT ![p] = NoError]
    /\ evlog' = [evlog EXCEPT ![p] = Append(@, Event("rollback", <<>>))]
    /\ pc' = [pc EXCEPT ![p] = "finally"]
    /\ UNCHANGED <<store, store0, text, idx, sel, trends, outcome, call, ret, cache, sc>>

\* get_db: "except SQLAlchemyError: db.rollback(); logger.error(...); raise"
get_db_except(p) ==
    /\ pc[p] = "except"
    /\ pending' = [pending EXCEPT ![p] = None]
    /\ writer' = IF writer = p THEN 0 ELSE writer
    /\ evlog' = [evlog EXCEPT ![p] = Append(@, Event("rollback", <<>>))]
    /\ pc' = [pc EXCEPT ![p] = "finally"]
    /\ UNCHANGED <<store, store0, text, idx, sel, trends, exc, outcome,
                   call, ret, cache, sc>>

\* variant: db.close() as the last statement of the try block instead of a
\* finally clause, so that it is not reached with an exception in flight
get_db_close_in_try(p) ==
    /\ pc[p] = "finally"
    /\ evlog' = [evlog EXCEPT ![p] =
                    IF exc[p] = NoError
                    THEN Append(@, Event("close", <<>>)) ELSE @]
    /\ outcome' = [outcome EXCEPT ![p] = exc[p]]
    /\ pc' = [pc EXCEPT ![p] = "done"]
    /\ UNCHANGED <<store, store0, writer, text, idx, sel, pending, trends,
                   exc, call, ret, cache, sc>>

\* get_db: "finally: db.close()"; then the with statement ends, normally or
\* with the exception in flight
get_db_finally(p) ==
    /\ pc[p] = "finally"
    /\ evlog' = [evlog EXCEPT ![p] = Append(@, Event("close", <<>>))]
    /\ outcome' = [outcome EXCEPT ![p] = exc[p]]
    /\ pc' = [pc EXCEPT ![p] = "done"]
    /\ UNCHANGED <<store, store0, writer, text, idx, sel, pending, trends,
                   exc, call, ret, cache, sc>>

Pass(p) ==
    \/ get_db_enter(p)
    \/ ut_next_word(p)
    \/ ut_update(p)
    \/ ut_insert(p)
    \/ ut_commit(p)
    \/ ut_return(p)
    \/ store_fails(p)
    \/ body_raises_other(p)
    \/ get_db_except(p)
    \/ get_db_finally(p)

Next == \E p \in Passes : Pass(p)

Spec == Init /\ [][Next]_vars

\* Each request handler runs to completion: a thread that can take a step
\* eventually takes one.
FairSpec == Spec /\ \A p \in Passes : WF_vars(Pass(p))

\* ------------------------------------------------------------------------
\* Properties of the trend store, get_db and update_trends
\* ------------------------------------------------------------------------
WRITE_EVENTS == {"update", "insert"}
SQLALCHEMY_ERRORS == {"IntegrityError", "OperationalError"}

\* the number of events of a log whose kind is in S
NumEv(log, S) == Cardinality({i \in 1..Len(log) : log[i].ev \in S})

\* the number of writes pass p has issued for keyword k
WritesOf(p, k) ==
    Cardinality({i \in 1..Len(evlog[p]) :
                    evlog[p][i].ev \in WRITE_EVENTS /\ evlog[p][i].kw = k})

\* the number of words of pass p's text that pass the filters of the loop and
\* have keyword k
Occurrences(p, k) ==
    Cardinality({i \in 1..Len(WordsOf(p)) :
                    /\ ~Skipped(WordsOf(p)[i])
                    /\ trailing_symbols_sub(WordsOf(p)[i]) = k})

KeywordsOf(p) ==
    {trailing_symbols_sub(WordsOf(p)[i]) : i \in 1..Len(WordsOf(p))}
        \cup {evlog[p][i].kw : i \in 1..Len(evlog[p])}

Started == {p \in Passes : pc[p] # "idle"}
Succeeded(p) == pc[p] = "done" /\ outcome[p] = NoError
Failed(p) == pc[p] = "done" /\ outcome[p] # NoError
Alone(p) == Started = {p}

RECURSIVE TotalCount(_)
TotalCount(rows) ==
    IF rows = {} THEN 0
    ELSE LET r == CHOOSE x \in rows : TRUE
         IN  r.count + TotalCount(rows \ {r})

\* C1: when several passes that all contain keyword k (once each) run
\* concurrently and all of them have completed without error, the stored
\* count of k has grown by the number of those passes: no increment is lost.
C1_NoLostIncrement ==
    (Cardinality(Started) >= 2 /\ \A p \in Started : Succeeded(p)) =>
        \A k \in UNION {KeywordsOf(p) : p \in Started} :
            (\A p \in Started : Occurrences(p, k) = 1) =>
                CountOf(store, k) = CountOf(store0, k) + Cardinality(Started)

\* C2 (as stated): a pass that completes issues exactly one write for each
\* distinct keyword that passes the filters, whatever the number of its
\* occurrences in the text, and so raises the keyword's count by exactly 1.
C2_OneWritePerDistinctKeyword ==
    \A p \in Passes : Succeeded(p) =>
        \A k \in KeywordsOf(p) :
            /\ Occurrences(p, k) >= 1 => WritesOf(p, k) = 1
            /\ (Alone(p) /\ Occurrences(p, k) >= 1) =>
                   CountOf(store, k) = CountOf(store0, k) + 1

\* C2 (amended): a pass that completes has issued exactly one write for each
\* occurrence of a keyword among the words that pass the filters (an insert
\* for a keyword the select did not find, an update otherwise), and a pass
\* that runs alone raises the keyword's stored count by the number of its
\* occurrences.
C2_OneWritePerOccurrence ==
    \A p \in Passes : Succeeded(p) =>
        \A k \in KeywordsOf(p) :
            /\ WritesOf(p, k) = Occurrences(p, k)
            /\ Alone(p) => CountOf(store, k) = CountOf(store0, k) + Occurrences(p, k)

\* a completed pass whose text holds a keyword twice, written twice
C2_Witness ==
    \E p \in Passes : \E k \in KeywordsOf(p) :
        Succeeded(p) /\ Occurrences(p, k) = 2 /\ WritesOf(p, k) = 2

\* C3 (as stated): update_trends commits nothing itself, so when a pass
\* fails none of the writes it issued is durable: the table is as it was
\* before the pass.
C3_NothingDurableAfterFailure ==
    \A p \in Passes :
        (Alone(p) /\ pc[p] = "done" /\ outcome[p] \in SQLALCHEMY_ERRORS) =>
            store = store0

\* C3 (amended): update_trends commits after every word it writes.  Each
\* write is directly followed by its commit or by the failure of that
\* commit, no write is pending between two iterations, and the writes of a
\* pass that runs alone are durable one by one: the counts of the table have
\* grown by the number of its commits, also when the pass fails later.
C3_CommitPerWord ==
    \A p \in Passes :
        LET log == evlog[p]
        IN  /\ \A i \in 1..Len(log) :
                   log[i].ev \in WRITE_EVENTS =>
                       IF i = Len(log)
                       THEN pending[p] # None /\ pc[p] = "commit"
                       ELSE log[i + 1].ev \in {"commit", "fail"}
            /\ \A i \in 1..Len(log) :
                   log[i].ev = "commit" =>
                       i > 1 /\ log[i - 1].ev \in WRITE_EVENTS
            /\ pc[p] \in {"loop", "finally", "done"} => pending[p] = None
            /\ Alone(p) =>
                   TotalCount(store) =
                       TotalCount(store0) + NumEv(log, {"commit"})

\* a pass that ran alone, committed a word and then failed: the committed
\* write is still in the table
C3_Witness ==
    \E p \in Passes :
        /\ pc[p] = "done"
        /\ outcome[p] \in SQLALCHEMY_ERRORS
        /\ Alone(p)
        /\ NumEv(evlog[p], {"commit"}) >= 1
        /\ store # store0

\* C4: at every moment the table holds at most one row per keyword; an
\* insert of a keyword that is already stored is rejected by the store.
C4_OneRowPerKeyword ==
    /\ \A r1, r2 \in store : r1.keyword = r2.keyword => r1 = r2
    /\ \A p \in Passes : \A i \in 1..Len(evlog[p]) :
           evlog[p][i].err = "IntegrityError" =>
               CountOf(store, evlog[p][i].kw) >= 1

\* a pass whose insert was rejected because another pass had stored the
\* keyword after this pass had looked it up
C4_Witness ==
    \E p \in Passes :
        /\ exc[p] = "IntegrityError"
        /\ sel[p] = None
        /\ CountOf(store, CurKeyword(p)) >= 1

\* C5: a failure of the store during a pass reaches the caller of the
\* with-block as the very error the store raised: after the failed
\* statement the pass issues no further statement (no retry, no fallback),
\* get_db rolls the session back, and the error is what the caller receives.
C5_FailurePropagates ==
    \A p \in Passes : \A i \in 1..Len(evlog[p]) :
        evlog[p][i].ev = "fail" =>
            /\ \A j \in (i + 1)..Len(evlog[p]) :
                   evlog[p][j].ev \in {"rollback", "close"}
            /\ pc[p] \in {"except", "finally", "done"}
            /\ pc[p] \in {"except", "finally"} => exc[p] = evlog[p][i].err
            /\ pc[p] = "done" =>
                   /\ outcome[p] = evlog[p][i].err
                   /\ \E j \in (i + 1)..Len(evlog[p]) :
                          evlog[p][j].ev = "rollback"

\* a pass that ended with the error of a failed statement
C5_Witness ==
    \E p \in Passes :
        /\ pc[p] = "done"
        /\ outcome[p] = "OperationalError"
        /\ \E i \in 1..Len(evlog[p]) : evlog[p][i].ev = "fail"

\* C6: every session that get_db opens is eventually closed, exactly once,
\* whether the with-block completes or raises; the session is rolled back
\* (before it is closed) exactly when a SQLAlchemyError was raised, and never
\* on normal completion.
C6_SessionClosedOnce ==
    /\ \A p \in Passes :
           (NumEv(evlog[p], {"open"}) = 1) ~>
               (pc[p] = "done" /\ NumEv(evlog[p], {"close"}) = 1)
    /\ [](\A p \in Passes :
             /\ NumEv(evlog[p], {"open"}) <= 1
             /\ NumEv(evlog[p], {"close"}) <= 1
             /\ NumEv(evlog[p], {"rollback"}) <= 1
             /\ pc[p] = "done" =>
                    /\ Last(evlog[p]).ev = "close"
                    /\ NumEv(evlog[p], {"rollback"}) = 1
                           <=> outcome[p] \in SQLALCHEMY_ERRORS)

\* one session closed after a rollback and one closed after an exception
\* that is no SQLAlchemyError, without a rollback
C6_Witness ==
    \E p, q \in Passes :
        /\ pc[p] = "done"
        /\ outcome[p] \in SQLALCHEMY_ERRORS
        /\ NumEv(evlog[p], {"rollback"}) = 1
        /\ Last(evlog[p]).ev = "close"
        /\ pc[q] = "done"
        /\ outcome[q] = "Exception"
        /\ NumEv(evlog[q], {"rollback"}) = 0
        /\ Last(evlog[q]).ev = "close"

\* ------------------------------------------------------------------------
\* The pure text functions, called on their own: call holds the function and
\* its argument, ret its result.  No request is in progress.
\* ------------------------------------------------------------------------
TextInit == InitStore /\ store = {} /\ InitText

Called(f) == call # None /\ call.fn = f

\* text = preprocess_text(text), on any text
PRE_CHARS == {" ", "ctl", ",", "zcomma", ".", "zA"}

call_preprocess_text ==
    /\ call = None
    /\ \E x \in Strs(PRE_CHARS, MaxPreLen) :
        /\ call' = [fn |-> "preprocess_text", arg |-> x, nth |-> 1]
        /\ ret' = preprocess_text(x)
    /\ UNCHANGED <<storeVars, scoreVars>>

\* preprocess_text applied to its own result
call_preprocess_text_again ==
    /\ Called("preprocess_text")
    /\ call.nth = 1
    /\ call' = [fn |-> "preprocess_text", arg |-> ret, nth |-> 2]
    /\ ret' = preprocess_text(ret)
    /\ UNCHANGED <<storeVars, scoreVars>>

\* sentences = split_sentences(text), on any text
SPLIT_CHARS == {"a", ".", " ", "(", ")", "bs"}

\* the example sentence of the documentation of the splitter
EXAMPLE_TEXT ==
    << "ko", "re", "ha", "kte", "ksu", "kto", "de", "su", "maru",
       "lq", "ju", "you", "rq", "na", "nai", "yo", "de", "su", "maru" >>

SplitTexts == Strs(SPLIT_CHARS, MaxSplitLen) \cup {EXAMPLE_TEXT}

call_split_sentences ==
    /\ call = None
    /\ \E x \in SplitTexts :
        /\ call' = [fn |-> "split_sentences", arg |-> x, nth |-> 1]
        /\ ret' = split_sentences(x)
    /\ UNCHANGED <<storeVars, scoreVars>>

SplitNext == call_split_sentences

SplitSpec == TextInit /\ [][SplitNext]_vars

\* ------------------------------------------------------------------------
\* the lists tokenizer._check_compound_word reads
\* ------------------------------------------------------------------------
\* constants.english.COMPOUND_WORDS: the two entries, character by character
\* ("bs" is the backslash)
COMPOUND_WORDS ==
    << << "bs", "b", "[", "A", "-", "Z", "a", "-", "z", "]", "+", "[", "-",
          "]", "[", "A", "-", "Z", "a", "-", "z", "]", "+", "bs", "b" >>,
       << "bs", "b", "(", "?", ":", "d", "a", "t", "a", "b", "a", "s", "e",
          "|", "s", "o", "f", "t", "w", "a", "r", "e", "|", "h", "a", "r",
          "d", "w", "a", "r", "e", "|", "n", "e", "t", "w", "o", "r", "k",
          "|", "w", "e", "b", "s", "i", "t", "e", "|", "s", "m", "a", "r",
          "t", "p", "h", "o", "n", "e", "|", "b", "a", "c", "k", "g", "r",
          "o", "u", "n", "d", "|", "e", "v", "e", "r", "y", "t", "h", "i",
          "n", "g", "|", "s", "o", "m", "e", "t", "h", "i", "n", "g", "|",
          "n", "o", "t", "h", "i", "n", "g", "|", "a", "n", "y", "o", "n",
          "e", "|", "e", "v", "e", "r", "y", "o", "n", "e", "|", "s", "o",
          "m", "e", "b", "o", "d", "y", "|", "n", "o", "b", "o", "d", "y",
          "|", "l", "i", "f", "e", "s", "t", "y", "l", "e", "|", "w", "o",
          "r", "k", "p", "l", "a", "c", "e", "|", "h", "o", "m", "e", "t",
          "o", "w", "n", "|", "w", "o", "r", "l", "d", "w", "i", "d", "e",
          "|", "n", "a", "t", "i", "o", "n", "w", "i", "d", "e", "|", "c",
          "i", "t", "y", "w", "i", "d", "e", "|", "d", "o", "w", "n", "t",
          "o", "w", "n", "|", "u", "p", "t", "o", "w", "n", "|", "i", "n",
          "d", "o", "o", "r", "|", "o", "u", "t", "d", "o", "o", "r", "|",
          "d", "a", "y", "t", "i", "m", "e", "|", "n", "i", "g", "h", "t",
          "t", "i", "m", "e", "|", "l", "i", "f", "e", "t", "i", "m", "e",
          "|", "h", "e", "a", "l", "t", "h", "c", "a", "r", "e", "|", "e",
          "l", "s", "e", "w", "h", "e", "r", "e", "|", "n", "e", "v", "e",
          "r", "t", "h", "e", "l", "e", "s", "s", "|", "n", "o", "w", "a",
          "d", "a", "y", "s", "|", "o", "t", "h", "e", "r", "w", "i", "s",
          "e", "|", "m", "e", "a", "n", "w", "h", "i", "l", "e", ")", "bs",
          "b" >> >>

\* constants.english.TECH_WORDS: its one entry
TECH_WORDS ==
    << << "bs", "b", "[", "A", "-", "Z", "a", "-", "z", "]", "+", "(", "?",
          ":", "t", "e", "c", "h", "|", "n", "e", "t", "|", "w", "e", "b",
          "|", "a", "p", "p", "|", "b", "o", "t", "|", "g", "r", "a", "m",
          "|", "b", "o", "o", "k", "|", "t", "u", "b", "e", "|", "p", "o",
          "d", "|", "c", "a", "s", "t", "|", "w", "a", "r", "e", "|", "g",
          "a", "t", "e", "|", "c", "l", "o", "u", "d", "|", "d", "a", "t",
          "a", "|", "c", "o", "d", "e", "|", "s", "t", "a", "c", "k", "|",
          "b", "a", "s", "e", "|", "s", "t", "o", "r", "e", "|", "s", "p",
          "a", "c", "e", "|", "l", "i", "n", "k", "|", "c", "h", "a", "i",
          "n", "|", "c", "o", "i", "n", "|", "v", "e", "r", "s", "e", "|",
          "s", "y", "n", "c", "|", "f", "l", "o", "w", "|", "h", "u", "b",
          "|", "l", "a", "b", "|", "s", "o", "f", "t", "|", "c", "y", "b",
          "e", "r", "|", "c", "r", "y", "p", "t", "o", ")", "bs", "b" >> >>

\* sentences that start with the first entry of COMPOUND_WORDS, and one that
\* does not
COMPOUND_SENTENCES ==
    { COMPOUND_WORDS[1], COMPOUND_WORDS[1] \o <<" ", "a">>, <<"a", "-", "a">> }

\* texts that start with an entry of the lists, and texts that do not
COMPOUND_TEXTS ==
    COMPOUND_SENTENCES \cup
    { COMPOUND_WORDS[2], TECH_WORDS[1], TECH_WORDS[1] \o <<"a">>,
      <<"d", "a", "t", "a", "b", "a", "s", "e">> }

\* tokens = tokenize_sentence(sentence), on any sentence
TOKEN_INPUT_CHARS == {"a", " ", ".", "maru", "watashi", "lq"}

call_tokenize_sentence ==
    /\ call = None
    /\ \E x \in Strs(TOKEN_INPUT_CHARS, MaxTokLen) \cup COMPOUND_SENTENCES :
        /\ call' = [fn |-> "tokenize_sentence", arg |-> x, nth |-> 1]
        /\ ret' = tokenize_sentence(x)
    /\ UNCHANGED <<storeVars, scoreVars>>

TokenizeNext == call_tokenize_sentence

TokenizeSpec == TextInit /\ [][TokenizeNext]_vars

\* pos, importance = self._identify_part_of_speech(word), on any word
call_identify_part_of_speech ==
    /\ call = None
    /\ \E w \in Strs(CLASSIFIED_CHARS, MaxWordLen) \ {<<>>} :
        /\ call' = [fn |-> "_identify_part_of_speech", arg |-> w, nth |-> 1]
        /\ ret' = _identify_part_of_speech(w)
    /\ UNCHANGED <<storeVars, scoreVars>>

\* the characters of the analysed sentences
ANALYZED_CHARS == {"watashi", "ga", "a", "i", "s", " ", "."}

\* self._analyze_with_context(sentence, prev_sentence, next_sentence)
call_analyze_with_context ==
    /\ call = None
    /\ \E x \in Strs(ANALYZED_CHARS, MaxContextChars) :
       \E prv \in Strs(ANALYZED_CHARS, MaxContextChars - Len(x)) :
       \E nxt \in Strs(ANALYZED_CHARS, MaxContextChars - Len(x) - Len(prv)) :
        /\ call' = [fn |-> "_analyze_with_context", arg |-> x,
                    prev |-> prv, next |-> nxt, nth |-> 1]
        /\ ret' = _analyze_with_context(x, prv, nxt)
    /\ UNCHANGED <<storeVars, scoreVars>>

\* analyzer.analyze(text)
call_analyze ==
    /\ call = None
    /\ \E x \in Strs(ANALYZED_CHARS, MaxAnalyzeLen) :
        /\ call' = [fn |-> "analyze", arg |-> x, nth |-> 1]
        /\ ret' = analyze(x)
    /\ UNCHANGED <<storeVars, scoreVars>>

ImportanceNext ==
    \/ call_identify_part_of_speech
    \/ call_analyze_with_context
    \/ call_analyze

ImportanceSpec == TextInit /\ [][ImportanceNext]_vars

PreprocessNext == call_preprocess_text \/ call_preprocess_text_again

PreprocessSpec == TextInit /\ [][PreprocessNext]_vars

\* ------------------------------------------------------------------------
\* Properties of the pure text functions
\* ------------------------------------------------------------------------
\* C8: preprocess_text is idempotent: applied to its own result it returns
\* that result unchanged.
C8_Idempotent ==
    (Called("preprocess_text") /\ call.nth = 2) => ret = call.arg

\* well-nestedness over the pair table, a backslash escaping exactly the one
\* character that follows it
RECURSIVE WellNestedFrom(_, _, _)
WellNestedFrom(t, i, stack) ==
    IF i > Len(t) THEN stack = <<>>
    ELSE IF t[i] = "bs" THEN WellNestedFrom(t, i + 2, stack)
    ELSE IF t[i] \in OPENERS THEN WellNestedFrom(t, i + 1, Append(stack, t[i]))
    ELSE IF t[i] \in CLOSERS
    THEN /\ stack # <<>>
         /\ CloserOf(Last(stack)) = t[i]
         /\ WellNestedFrom(t, i + 1, Front(stack))
    ELSE WellNestedFrom(t, i + 1, stack)

WellNested(t) == WellNestedFrom(t, 1, <<>>)

\* a is a contiguous part of t
Contains(t, a) ==
    \E i \in 1..(Len(t) - Len(a) + 1) : SubSeq(t, i, i + Len(a) - 1) = a

\* C7: every sentence split_sentences returns, except possibly the last, is
\* bracket-balanced over the pair table (every opened bracket is closed by
\* its own closer, in nesting order); and the example sentence is not split
\* inside its quoted span.
C7_SentencesBalanced ==
    Called("split_sentences") =>
        /\ \A i \in 1..(Len(ret) - 1) : WellNested(ret[i])
        /\ call.arg = EXAMPLE_TEXT =>
               \E i \in 1..Len(ret) :
                   Contains(ret[i], <<"lq", "ju", "you", "rq">>)

\* C9 (as stated): tokenize_sentence returns at least one token for every
\* sentence that is not empty, also for one made only of whitespace or
\* punctuation.
C9_TokenForNonEmpty ==
    (Called("tokenize_sentence") /\ call.arg # <<>>) => Len(ret) >= 1

HasContent(sentence) ==
    \E i \in 1..Len(sentence) :
        sentence[i] \notin TOKEN_SEPARATORS /\ ~IsSpace(sentence[i])

\* C9 (amended): tokenize_sentence returns at least one token exactly for
\* the sentences that hold a character that is neither whitespace nor one of
\* the six separators; for a sentence made only of whitespace and separators
\* it returns no token.
C9_TokenIffContent ==
    Called("tokenize_sentence") => (Len(ret) >= 1 <=> HasContent(call.arg))

\* a sentence with a separator and a word after it, tokenized
C9_Witness ==
    /\ Called("tokenize_sentence")
    /\ Len(call.arg) >= 2
    /\ call.arg[1] \in TOKEN_SEPARATORS
    /\ HasContent(call.arg)
    /\ Len(ret) >= 1

InRange(importance) == importance > 0 /\ importance <= IMPORTANCE_CAP

\* C10: every importance value the analyzer produces is greater than 0 and
\* at most 3.0: the base value of _identify_part_of_speech and the adjusted
\* value of every entry of _analyze_with_context and of analyze, for every
\* sentence and every previous and next sentence.
C10_ImportanceInRange ==
    /\ Called("_identify_part_of_speech") => InRange(ret.importance)
    /\ (Called("_analyze_with_context") \/ Called("analyze")) =>
           \A i \in 1..Len(ret) : InRange(ret[i].importance)

\* a first word that also occurs in the previous sentence: 2.0 * 1.2 * 1.5
\* exceeds the cap and the entry has importance 3.0
C10_Witness ==
    /\ Called("_analyze_with_context")
    /\ \E i \in 1..Len(ret) :
           /\ ret[i].importance = IMPORTANCE_CAP
           /\ ret[i].word \in Range(_extract_words(call.prev))
           /\ _identify_part_of_speech(ret[i].word).importance
                  = IMPORTANCE_INDEPENDENT

\* ------------------------------------------------------------------------
\* Scoring (ScoringCalculator, TrendScoring).  Numbers: hours_old is in
\* tenths of an hour, a time weight and an importance weight are in tenths,
\* a trend bonus is in hundredths, a score is in hundredths.
\*
\* More characters: "hanashi" "dai" = U+8A71 U+984C, "chu" "me" = U+6CE8
\* U+76EE, "hito" "ki" = U+4EBA U+6C17, "ryu" "iku" = U+6D41 U+884C,
\* "kyu" "ue" "noboru" = U+6025 U+4E0A U+6607, "sai" "shin" = U+6700 U+65B0,
\* "hata" "nou" = U+6A5F U+80FD, "soku" "hou" = U+901F U+5831 (all kanji).
\* ------------------------------------------------------------------------
Max(a, b) == IF a >= b THEN a ELSE b

\* str.lower, on the characters of the keywords
LowerChar(c) ==
    CASE c = "A" -> "a"
      [] c = "I" -> "i"
      [] c = "Z" -> "z"
      [] OTHER -> c

lower(w) == [i \in 1..Len(w) |-> LowerChar(w[i])]

\* variant: each threshold belongs to the older step
_calculate_time_weight_strict(hours_old) ==
    IF hours_old < 5 THEN 15
    ELSE IF hours_old < 10 THEN 12
    ELSE IF hours_old < 30 THEN 10
    ELSE IF hours_old < 60 THEN 9
    ELSE IF hours_old < 120 THEN 7
    ELSE IF hours_old < 240 THEN 5
    ELSE 3

\* ScoringCalculator._calculate_time_weight
_calculate_time_weight(hours_old) ==
    IF hours_old <= 5 THEN 15
    ELSE IF hours_old <= 10 THEN 12
    ELSE IF hours_old <= 30 THEN 10
    ELSE IF hours_old <= 60 THEN 9
    ELSE IF hours_old <= 120 THEN 7
    ELSE IF hours_old <= 240 THEN 5
    ELSE 3

\* TrendScoring.__init__: self.trend_indicators
TREND_INDICATORS ==
    { <<"hanashi", "dai">>, <<"chu", "me">>, <<"hito", "ki">>,
      <<"ryu", "iku">>, <<"kyu", "ue", "noboru">>, <<"sai", "shin">>,
      <<"shin", "hata", "nou">>,
      <<"t", "r", "e", "n", "d">>, <<"v", "i", "r", "a", "l">>,
      <<"p", "o", "p", "u", "l", "a", "r">>, <<"n", "e", "w">>,
      <<"b", "r", "e", "a", "k", "i", "n", "g">>,
      <<"l", "a", "t", "e", "s", "t">>, <<"h", "o", "t">>,
      <<"b", "u", "z", "z">>,
      <<"t", "r", "e", "n", "d", "i", "n", "g">> }

\* "(U+901F U+5831|breaking|urgent)"
URGENCY_MARKERS ==
    { <<"soku", "hou">>, <<"b", "r", "e", "a", "k", "i", "n", "g">>,
      <<"u", "r", "g", "e", "n", "t">> }

\* str.split(): the maximal runs of characters that are not whitespace
RECURSIVE split(_)
split(s) ==
    IF s = <<>> THEN {}
    ELSE IF IsSpace(s[1]) THEN split(Tail(s))
    ELSE LET n == CHOOSE k \in 1..Len(s) :
                      /\ \A i \in 1..k : ~IsSpace(s[i])
                      /\ (k = Len(s) \/ IsSpace(s[k + 1]))
         IN {SubSeq(s, 1, n)} \cup split(SubSeq(s, n + 1, Len(s)))

HasChar(w, C) == \E i \in 1..Len(w) : w[i] \in C

\* the sum of the bonuses of _evaluate_trend_indicators, before min(.., 1.0)
TrendBonusSum(keyword) ==
    LET keyword_lower == lower(keyword)
        full == {ind \in TREND_INDICATORS : Contains(keyword_lower, ind)}
        part == {ind \in TREND_INDICATORS \ full :
                     \E x \in split(ind) : Contains(keyword_lower, x)}
    IN 20 * Cardinality(full) + 10 * Cardinality(part)
       + (IF HasChar(keyword, {"#"}) THEN 30 ELSE 0)
       + (IF HasChar(keyword, {"@"}) THEN 20 ELSE 0)
       + (IF HasChar(keyword, DIGITS) THEN 10 ELSE 0)
       + (IF Len(keyword) <= 10 THEN 10 ELSE 0)
       + (IF HasChar(keyword, {"!", "?", "zbang", "zq"}) THEN 15 ELSE 0)
       + (IF \E u \in URGENCY_MARKERS : Contains(keyword_lower, u)
          THEN 25 ELSE 0)

\* variant: return bonus, without min(bonus, 1.0)
_evaluate_trend_indicators_unclamped(keyword) == TrendBonusSum(keyword)

\* ScoringCalculator._evaluate_trend_indicators
_evaluate_trend_indicators(keyword) == Min(TrendBonusSum(keyword), 100)

\* ------------------------------------------------------------------------
\* Pattern tables.  A table is the sequence of its items in dict order, each
\* [type, patterns]; a pattern entry is [kind, src]: kind "str" is a pattern
\* string, "Pattern" an already compiled re.Pattern object, "list" a Python
\* list; src names the regular expression.  Two entries with the same src are
\* the same string, hence the same key of the cache.
\* ------------------------------------------------------------------------
Str(src) == [kind |-> "str", src |-> src]
Compiled(src) == [kind |-> "Pattern", src |-> src]
List(src) == [kind |-> "list", src |-> src]
Item(type, patterns) == [type |-> type, patterns |-> patterns]

\* jp_patterns.JP_PATTERNS.  "meishi" = noun, "doshi" = verb, "keiyoshi" =
\* adjective, "fukushi" = adverb, "joshi" = particle, "jodoshi" = auxiliary,
\* "setsuzokushi" = conjunction, "kandoshi" = interjection, "rentaishi" =
\* prenominal, "kigo" = symbol.  ALPHA_NUM is a compiled pattern of
\* constants.common; the first "kigo" entry is a class built from the repr
\* of compiled patterns, the two others are "[]".
JP_PATTERNS ==
    << Item("meishi", << Str("KANJI"), Str("HIRAGANA"), Str("KATAKANA"),
                         Compiled("ALPHA_NUM"), Str("jp_proper_noun"),
                         Str("jp_numeral"), Str("jp_compound_noun") >>),
       Item("doshi", << Str("jp_verb_1"), Str("jp_verb_2"), Str("jp_verb_3"),
                        Str("jp_verb_4"), Str("jp_verb_5") >>),
       Item("keiyoshi", << Str("jp_adj_1"), Str("jp_adj_2"), Str("jp_adj_3") >>),
       Item("fukushi", << Str("jp_adv_1"), Str("jp_adv_2"), Str("jp_adv_3") >>),
       Item("joshi", << Str("jp_particle_1"), Str("jp_particle_2"),
                        Str("jp_particle_3"), Str("jp_particle_4") >>),
       Item("jodoshi", << Str("jp_aux_1"), Str("jp_aux_2"), Str("jp_aux_3"),
                          Str("jp_aux_4"), Str("jp_aux_5") >>),
       Item("setsuzokushi", << Str("jp_conjunction") >>),
       Item("kandoshi", << Str("jp_interjection") >>),
       Item("rentaishi", << Str("jp_prenominal") >>),
       Item("kigo", << Str("jp_symbol_class"), Str("empty_class"),
                       Str("empty_class") >>) >>

\* en_patterns.EN_PATTERNS.  The first "verb" entry is the list BE_VERBS; the
\* first "punctuation" entry is a class built from the repr of compiled
\* patterns.
EN_PATTERNS ==
    << Item("noun", << Str("en_noun_1"), Str("en_noun_2"), Str("en_noun_3"),
                       Str("en_noun_4") >>),
       Item("verb", << List("BE_VERBS"), Str("en_verb_2"), Str("en_verb_3"),
                       Str("en_verb_4") >>),
       Item("adjective", << Str("en_adj_1"), Str("en_adj_2"), Str("en_adj_3") >>),
       Item("adverb", << Str("en_adv_1"), Str("en_adv_2"), Str("en_adv_3") >>),
       Item("preposition", << Str("en_preposition") >>),
       Item("article", << Str("en_article") >>),
       Item("pronoun", << Str("en_pronoun_1"), Str("en_pronoun_2"),
                          Str("en_pronoun_3"), Str("en_pronoun_4") >>),
       Item("conjunction", << Str("en_conjunction") >>),
       Item("punctuation", << Str("en_punct_class"), Str("en_quotes"),
                              Str("en_dashes") >>) >>

\* the strings that re.compile rejects ("unbalanced parenthesis",
\* "unterminated character set")
UNCOMPILABLE == {"jp_symbol_class", "empty_class", "en_punct_class"}

\* Tables a caller of ScoringCalculator can pass besides the registry: they
\* hold pattern strings of constants.japanese under categories of
\* importance_weights ("zogo" = coined word, "fukugo_meishi" = compound noun),
\* and, for JP_UNWEIGHTED, under a category without a weight.
JP_WEIGHTED ==
    << Item("zogo", << Str("KATAKANA") >>),
       Item("fukugo_meishi", << Str("KANJI"), Str("HIRAGANA") >>) >>
EN_WEIGHTED == << Item("hashtag", << Str("KANJI") >>) >>
JP_UNWEIGHTED == << Item("doshi", << Str("HIRAGANA") >>) >>
NO_PATTERNS == << >>

Table(name) ==
    CASE name = "JP_PATTERNS" -> JP_PATTERNS
      [] name = "EN_PATTERNS" -> EN_PATTERNS
      [] name = "JP_WEIGHTED" -> JP_WEIGHTED
      [] name = "EN_WEIGHTED" -> EN_WEIGHTED
      [] name = "JP_UNWEIGHTED" -> JP_UNWEIGHTED
      [] name = "NO_PATTERNS" -> NO_PATTERNS

\* TrendScoring.__init__: self.importance_weights ("hashtag_jp" = the
\* katakana key)
importance_weights ==
    [ t \in { "meishi", "fukugo_meishi", "zogo", "hashtag_jp",
              "noun", "compound", "neologism", "hashtag" } |->
        CASE t \in {"meishi", "noun"} -> 10
          [] t \in {"fukugo_meishi", "compound"} -> 13
          [] t \in {"zogo", "neologism"} -> 15
          [] t \in {"hashtag_jp", "hashtag"} -> 14 ]

\* "for pattern_type, patterns in patterns_dict.items(): for pattern in
\* patterns", over jp_patterns and then en_patterns: the entries in the order
\* in which check_patterns visits them, each with its pattern_type
RECURSIVE Flatten(_)
Flatten(table) ==
    IF table = <<>> THEN <<>>
    ELSE [j \in 1..Len(table[1].patterns) |->
              [type |-> table[1].type, pattern |-> table[1].patterns[j]]]
         \o Flatten(Tail(table))

Visited(jp_patterns, en_patterns) ==
    Flatten(Table(jp_patterns)) \o Flatten(Table(en_patterns))

\* the kanji, hiragana and katakana of the model
KANJI_CHARS ==
    { "watashi", "ju", "you", "nai", "yo", "hanashi", "dai", "chu", "me",
      "hito", "ki", "ryu", "iku", "kyu", "ue", "noboru", "sai", "shin",
      "hata", "nou", "soku", "hou" }
KATAKANA_CHARS == {"kte", "ksu", "kto"}

\* re.compile(src, re.I).search(keyword), for the pattern strings "[U+4E00-
\* U+9FAF U+3005 U+3006 U+30F6]+", "[U+3041-U+3093 U+30FC U+30FB U+309B
\* U+309C]+" and "[U+30A1-U+30F3 U+30FC U+30FB U+309B U+309C]+"
search(src, keyword) ==
    CASE src = "KANJI" -> HasChar(keyword, KANJI_CHARS)
      [] src = "HIRAGANA" -> HasChar(keyword, HIRAGANA_CHARS \cup {"nakaguro"})
      [] src = "KATAKANA" -> HasChar(keyword, KATAKANA_CHARS \cup {"nakaguro"})

\* ------------------------------------------------------------------------
\* ScoringCalculator, as a function of its arguments.  A result is
\* [exc, val]: the exception the call raises (NoError if none) and the value
\* it returns.
\* ------------------------------------------------------------------------
Returns(v) == [exc |-> NoError, val |-> v]
Raises(x) == [exc |-> x, val |-> 0]

\* re.compile(pattern, re.I): a compiled pattern cannot be compiled again
\* with flags, and three strings of the registry are not regular expressions
re_compile(pattern) ==
    IF pattern.kind = "Pattern" THEN Raises("ValueError")
    ELSE IF pattern.src \in UNCOMPILABLE THEN Raises("error")
    ELSE Returns([src |-> pattern.src, flags |-> "I"])

\* the body of the loops of check_patterns from entry pos on; "pattern not in
\* self._compile_regex_cache" hashes the pattern, which a list does not allow
RECURSIVE check_patterns(_, _, _, _)
check_patterns(visited, pos, keyword, max_weight) ==
    IF pos > Len(visited) THEN Returns(max_weight)
    ELSE LET pattern_type == visited[pos].type
             pattern == visited[pos].pattern
         IN IF pattern.kind = "list" THEN Raises("TypeError")
            ELSE IF re_compile(pattern).exc # NoError THEN re_compile(pattern)
            ELSE IF ~search(re_compile(pattern).val.src, keyword)
            THEN check_patterns(visited, pos + 1, keyword, max_weight)
            ELSE IF pattern_type \notin DOMAIN importance_weights
            THEN Raises("KeyError")
            ELSE check_patterns(visited, pos + 1, keyword,
                     Max(max_weight, importance_weights[pattern_type]))

\* ScoringCalculator._calculate_keyword_importance
_calculate_keyword_importance(keyword, jp_patterns, en_patterns) ==
    check_patterns(Visited(jp_patterns, en_patterns), 1, lower(keyword), 10)

\* len(str(count)), count >= 0
RECURSIVE DecimalDigits(_)
DecimalDigits(n) == IF n < 10 THEN 1 ELSE 1 + DecimalDigits(n \div 10)

\* round(n / d): the nearest integer.  When n / d is exactly half way between
\* two integers, round() goes by the binary rounding error of the float
\* product, which these integers do not represent: RoundNearest has no value
\* there, and the arguments of the model's calls (a count that is a multiple
\* of 4, or the documented example) never produce that case.
RoundNearest(n, d) ==
    LET q == n \div d
        r == n % d
    IN CASE 2 * r < d -> q
         [] 2 * r > d -> q + 1

\* base_score * time_weight * importance_weight * (1 + trend_bonus), in
\* units of 1/10000: base_score is count * (10 + digits), the weights are in
\* tenths and the bonus in hundredths
RawScore(count, time_weight, importance_weight, trend_bonus) ==
    count * (10 + DecimalDigits(count)) * time_weight * importance_weight
        * (100 + trend_bonus)

\* the upper limit 10000 of a score, in hundredths
SCORE_CAP == 1000000

\* variant: round(raw_score, 2), without min(raw_score, 10000)
FinalScore_uncapped(count, time_weight, importance_weight, trend_bonus) ==
    RoundNearest(RawScore(count, time_weight, importance_weight, trend_bonus), 100)

\* round(min(raw_score, 10000), 2), in hundredths
FinalScore(count, time_weight, importance_weight, trend_bonus) ==
    LET raw == RawScore(count, time_weight, importance_weight, trend_bonus)
    IN IF raw > SCORE_CAP * 100 THEN SCORE_CAP ELSE RoundNearest(raw, 100)

\* variant: only the empty keyword is refused
InvalidInput_keyword_only(keyword, hours_old) == keyword = <<>>

\* "if not keyword or hours_old < 0"
InvalidInput(keyword, hours_old) == keyword = <<>> \/ hours_old < 0

\* ScoringCalculator.calculate_popularity_score
calculate_popularity_score(count, hours_old, keyword, jp_patterns, en_patterns) ==
    IF InvalidInput(keyword, hours_old) THEN Returns(0)
    ELSE LET importance == _calculate_keyword_importance(keyword, jp_patterns, en_patterns)
         IN IF importance.exc # NoError THEN importance
            ELSE Returns(FinalScore(count, _calculate_time_weight(hours_old),
                             importance.val, _evaluate_trend_indicators(keyword)))

\* ------------------------------------------------------------------------
\* A scoring call on the shared ScoringCalculator, step by step.  The cache
\* self._compile_regex_cache is a set of entries [key, re]: at most one entry
\* per key.  A step of a thread is one access to the cache together with the
\* thread-local work that follows it.
\* ------------------------------------------------------------------------
CacheKeys(c) == {x.key : x \in c}

\* variant: a cache keyed by pattern_type
CacheKey_by_type(entry) == Str(entry.type)

\* the key "pattern" of self._compile_regex_cache[pattern]
CacheKey(entry) == entry.pattern

\* variant: a cache that holds one entry and drops the others
CacheInsert_evicting(c, k, v) == {[key |-> k, re |-> v]}

\* self._compile_regex_cache[k] = v
CacheInsert(c, k, v) == {x \in c : x.key # k} \cup {[key |-> k, re |-> v]}

\* self._compile_regex_cache[k]
CacheGet(c, k) == CHOOSE x \in c : x.key = k

\* the arguments the model gives to calculate_popularity_score
COUNTS == {0, 4, 1000}
HOURS == {-1, 2, 5, 6, 250}
AI_KEYWORD == <<"A", "I">>
SCORE_KEYWORDS ==
    { <<>>, AI_KEYWORD, <<"kte">>, <<"hanashi", "dai">>, <<"ha">>,
      <<"#", "kte", "ju">>, <<"#", "@", "1", "!", "soku", "hou">> }
REGISTRY_TABLES == <<"JP_PATTERNS", "EN_PATTERNS">>
TABLE_PAIRS ==
    { REGISTRY_TABLES, <<"JP_WEIGHTED", "EN_WEIGHTED">>,
      <<"JP_WEIGHTED", "NO_PATTERNS">>, <<"JP_UNWEIGHTED", "EN_WEIGHTED">> }
\* count=5, hours_old=0.2, keyword="AI", as TrendScoring passes them on
EXAMPLE_CALL == <<5, 2, AI_KEYWORD, REGISTRY_TABLES>>
SCORE_CALLS ==
    (COUNTS \X HOURS \X SCORE_KEYWORDS \X TABLE_PAIRS) \cup {EXAMPLE_CALL}

\* the arguments of concurrent calls
SHARED_KEYWORDS == {<<"kte">>, <<"ha">>}
SHARED_TABLE_PAIRS ==
    { REGISTRY_TABLES, <<"JP_WEIGHTED", "EN_WEIGHTED">>,
      <<"JP_UNWEIGHTED", "EN_WEIGHTED">> }
SHARED_CALLS == {4} \X {2} \X SHARED_KEYWORDS \X SHARED_TABLE_PAIRS

Entries(t) == Visited(sc[t].jp_patterns, sc[t].en_patterns)
CurEntry(t) == Entries(t)[sc[t].pos]

Finish(t, result) ==
    sc' = [sc EXCEPT ![t].pc = "done", ![t].exc = result.exc,
                     ![t].val = result.val]

\* calculate_popularity_score is entered: lines 49-56 and the first lines of
\* _calculate_keyword_importance
sc_call(t, calls) ==
    /\ sc[t].pc = "idle"
    /\ \E args \in calls :
          LET count == args[1]
              hours_old == args[2]
              keyword == args[3]
              tables == args[4]
              started == [IdleCall EXCEPT
                             !.count = count, !.hours_old = hours_old,
                             !.keyword = keyword, !.jp_patterns = tables[1],
                             !.en_patterns = tables[2]]
          IN sc' = [sc EXCEPT ![t] =
                       IF InvalidInput(keyword, hours_old)
                       THEN [started EXCEPT !.pc = "done"]
                       ELSE [started EXCEPT !.pc = "check", !.pos = 1,
                                            !.max_weight = 10]]
    /\ UNCHANGED <<cache, storeVars, textVars>>

\* "if pattern not in self._compile_regex_cache"
sc_check(t) ==
    /\ sc[t].pc = "check"
    /\ sc[t].pos <= Len(Entries(t))
    /\ IF CurEntry(t).pattern.kind = "list"
       THEN Finish(t, Raises("TypeError"))
       ELSE IF CacheKey(CurEntry(t)) \in CacheKeys(cache)
       THEN sc' = [sc EXCEPT ![t].pc = "search"]
       ELSE sc' = [sc EXCEPT ![t].pc = "compile"]
    /\ UNCHANGED <<cache, storeVars, textVars>>

\* "self._compile_regex_cache[pattern] = re.compile(pattern, re.I)"
sc_compile(t) ==
    /\ sc[t].pc = "compile"
    /\ LET compiled == re_compile(CurEntry(t).pattern)
       IN IF compiled.exc # NoError
          THEN /\ Finish(t, compiled)
               /\ UNCHANGED cache
          ELSE /\ cache' = CacheInsert(cache, CacheKey(CurEntry(t)), compiled.val)
               /\ sc' = [sc EXCEPT ![t].pc = "search"]
    /\ UNCHANGED <<storeVars, textVars>>

\* "if self._compile_regex_cache[pattern].search(keyword): weight =
\* self.importance_weights[pattern_type]; max_weight = max(max_weight,
\* weight)", and the step of the loops to the next pattern
sc_search(t) ==
    /\ sc[t].pc = "search"
    /\ IF CacheKey(CurEntry(t)) \notin CacheKeys(cache)
       THEN Finish(t, Raises("KeyError"))
       ELSE IF ~search(CacheGet(cache, CacheKey(CurEntry(t))).re.src,
                       lower(sc[t].keyword))
       THEN sc' = [sc EXCEPT ![t].pc = "check", ![t].pos = @ + 1,
                             ![t].searched = @ + 1]
       ELSE IF CurEntry(t).type \notin DOMAIN importance_weights
       THEN Finish(t, Raises("KeyError"))
       ELSE sc' = [sc EXCEPT ![t].pc = "check", ![t].pos = @ + 1,
                             ![t].searched = @ + 1,
                             ![t].max_weight =
                                 Max(@, importance_weights[CurEntry(t).type])]
    /\ UNCHANGED <<cache, storeVars, textVars>>

\* the loops are over: "return max_weight", then lines 64-72
sc_finish(t) ==
    /\ sc[t].pc = "check"
    /\ sc[t].pos > Len(Entries(t))
    /\ Finish(t, Returns(FinalScore(sc[t].count,
                             _calculate_time_weight(sc[t].hours_old),
                             sc[t].max_weight,
                             _evaluate_trend_indicators(sc[t].keyword))))
    /\ UNCHANGED <<cache, storeVars, textVars>>

\* the caller has the result or the exception; the thread serves its next
\* request
sc_return(t) ==
    /\ sc[t].pc = "done"
    /\ sc' = [sc EXCEPT ![t] = IdleCall]
    /\ UNCHANGED <<cache, storeVars, textVars>>

sc_step(t) ==
    \/ sc_check(t)
    \/ sc_compile(t)
    \/ sc_search(t)
    \/ sc_finish(t)
    \/ sc_return(t)

\* one thread: the calls follow each other
ScoreNext ==
    \/ sc_call(1, SCORE_CALLS)
    \/ sc_step(1)

ScoreSpec == TextInit /\ [][ScoreNext]_vars

\* the request threads call the one calculator at the same time
ConcurrentNext ==
    \E t \in Threads :
        \/ sc_call(t, SHARED_CALLS)
        \/ sc_step(t)

ConcurrentSpec == TextInit /\ [][ConcurrentNext]_vars

\* ------------------------------------------------------------------------
\* Properties of the scoring calls
\* ------------------------------------------------------------------------
Done(t) == sc[t].pc = "done"
Returned(t) == Done(t) /\ sc[t].exc = NoError
ValidCall(t) == sc[t].keyword # <<>> /\ sc[t].hours_old >= 0

\* the raw product of a call that went through the pattern tables
RawOf(t) ==
    RawScore(sc[t].count, _calculate_time_weight(sc[t].hours_old),
             sc[t].max_weight, _evaluate_trend_indicators(sc[t].keyword))

\* what the call of thread t gives with a calculator of its own
AloneResult(t) ==
    calculate_popularity_score(sc[t].count, sc[t].hours_old, sc[t].keyword,
                               sc[t].jp_patterns, sc[t].en_patterns)

\* C11: for every count >= 0, every hours_old and every keyword, the value
\* calculate_popularity_score returns lies in [0.0, 10000.0], and a raw
\* product above 10000 is returned as 10000.
C11_ScoreInRange ==
    \A t \in Threads :
        Returned(t) =>
            /\ sc[t].val >= 0
            /\ sc[t].val <= SCORE_CAP
            /\ (ValidCall(t) /\ RawOf(t) > SCORE_CAP * 100) =>
                   sc[t].val = SCORE_CAP

\* a call whose raw product is above 10000 has returned
C11_Witness ==
    \E t \in Threads :
        /\ Returned(t)
        /\ ValidCall(t)
        /\ RawOf(t) > SCORE_CAP * 100
        /\ sc[t].val = SCORE_CAP

\* C12: when keyword is empty or hours_old is negative, the call returns 0.0
\* and raises nothing, whatever the count, and it has searched no pattern and
\* put nothing into the cache.
C12_InvalidInputReturnsZero ==
    /\ [](\A t \in Threads :
              (Done(t) /\ (sc[t].keyword = <<>> \/ sc[t].hours_old < 0)) =>
                  /\ sc[t].exc = NoError
                  /\ sc[t].val = 0
                  /\ sc[t].searched = 0)
    /\ [][\A t \in Threads :
              (sc[t].pc = "idle" /\ sc'[t].pc # "idle"
                  /\ (sc'[t].keyword = <<>> \/ sc'[t].hours_old < 0)) =>
                  (sc'[t].pc = "done" /\ cache' = cache)]_vars

\* a call with a keyword, a positive count and a negative age has returned,
\* on a calculator whose cache earlier calls have filled
C12_Witness ==
    \E t \in Threads :
        /\ Done(t)
        /\ sc[t].keyword # <<>>
        /\ sc[t].hours_old < 0
        /\ sc[t].count > 0
        /\ sc[t].val = 0
        /\ cache # {}

\* the call count=5, hours_old=0.2, keyword="AI" of TrendScoring
IsExampleCall(t) ==
    <<sc[t].count, sc[t].hours_old, sc[t].keyword,
      <<sc[t].jp_patterns, sc[t].en_patterns>>>> = EXAMPLE_CALL

\* C13: for valid input TrendScoring.calculate_popularity_score, which passes
\* JP_PATTERNS and EN_PATTERNS, returns a value, namely the rounded capped
\* product; for count=5, hours_old=0.2, keyword="AI" it returns 90.75.
C13_ReturnsFormulaValue ==
    \A t \in Threads :
        (Done(t) /\ ValidCall(t)
            /\ <<sc[t].jp_patterns, sc[t].en_patterns>> = REGISTRY_TABLES) =>
            /\ sc[t].exc = NoError
            /\ sc[t].val = (IF RawOf(t) > SCORE_CAP * 100 THEN SCORE_CAP
                            ELSE RoundNearest(RawOf(t), 100))
            /\ IsExampleCall(t) => sc[t].val = 9075

\* every entry of the cache is keyed by a pattern string and holds the
\* compilation of that string
CacheSound ==
    \A x \in cache :
        /\ x.key.kind = "str"
        /\ x.re = [src |-> x.key.src, flags |-> "I"]

\* a step adds entries to the cache and changes none
CacheGrows == \A x \in cache : x \in cache'

\* C14: a call returns what it returns on a calculator with an empty cache,
\* whatever the cache held before; the cache is the only state a call
\* changes, and a call only adds entries keyed by a pattern string that hold
\* the compilation of that string.
C14_CacheTransparent ==
    /\ [](\A t \in Threads :
              Done(t) => (sc[t].exc = AloneResult(t).exc /\ sc[t].val = AloneResult(t).val))
    /\ []CacheSound
    /\ [][CacheGrows /\ UNCHANGED <<storeVars, textVars>>]_vars

\* a call has returned a score on a cache that an earlier call with other
\* tables has filled: the cache holds a pattern that is in neither table of
\* this call
C14_Witness ==
    \E t \in Threads :
        /\ Returned(t)
        /\ sc[t].val > 0
        /\ \E x \in cache :
               \A i \in 1..Len(Entries(t)) : Entries(t)[i].pattern # x.key

\* C15: under every interleaving of the cache steps of concurrent calls, each
\* call returns what it returns alone, each cache entry maps a pattern string
\* to the compilation of that string, and a call that is past its membership
\* check finds the entry of its own pattern.
C15_ConcurrentCallsIndependent ==
    /\ CacheSound
    /\ \A t \in Threads :
           /\ Done(t) => (sc[t].exc = AloneResult(t).exc /\ sc[t].val = AloneResult(t).val)
           /\ sc[t].pc = "search" =>
                  /\ CacheKey(CurEntry(t)) \in CacheKeys(cache)
                  /\ CacheGet(cache, CacheKey(CurEntry(t))).re.src
                         = CurEntry(t).pattern.src

\* two threads found the same pattern missing: one has inserted its
\* compilation and is about to search, the other is about to insert its own
C15_Witness ==
    \E t, u \in Threads :
        /\ t # u
        /\ sc[t].pc = "search"
        /\ sc[u].pc = "compile"
        /\ CacheKey(CurEntry(t)) = CacheKey(CurEntry(u))
        /\ CacheKey(CurEntry(t)) \in CacheKeys(cache)

\* ------------------------------------------------------------------------
\* analyze_sentiment (patterns/sentiment.py).  A sentiment score is in
\* thousandths, a pattern's score and weight are in tenths.
\*
\* More characters: "kpo" "kji" "kxi" "kbu" "kne" "kga" = U+30DD U+30B8 U+30A3
\* U+30D6 U+30CD U+30AC (katakana); "takai" = U+9AD8, "moto" = U+7D20, "hare"
\* = U+6674, "yoi" = U+826F, "suki" = U+597D, "ureshi" = U+5B09, "tano" =
\* U+697D, "waru" = U+60AA, "zan" "nen" = U+6B8B U+5FF5, "kira" = U+5ACC,
\* "fu" "man" = U+4E0D U+6E80 (kanji); "ra" "shi" "ii" "hki" "tsu" "ma" =
\* U+3089 U+3057 U+3044 U+304D U+3064 U+307E (hiragana).
\* ------------------------------------------------------------------------
SentimentPattern(word, score, weight) ==
    [word |-> word, score |-> score, weight |-> weight]

\* variant: every rule with the default weight 1.0
SENTIMENT_PATTERNS_unweighted ==
    << SentimentPattern(<<"kpo", "kji", "kte", "kxi", "kbu">>, 12, 10),
       SentimentPattern(<<"sai", "takai">>, 15, 10),
       SentimentPattern(<<"moto", "hare", "ra", "shi", "ii">>, 14, 10),
       SentimentPattern(<<"yoi", "ii">>, 11, 10),
       SentimentPattern(<<"suki", "hki">>, 12, 10),
       SentimentPattern(<<"ureshi", "shi", "ii">>, 13, 10),
       SentimentPattern(<<"tano", "shi", "ii">>, 13, 10),
       SentimentPattern(<<"kne", "kga", "kte", "kxi", "kbu">>, 7, 10),
       SentimentPattern(<<"waru", "ii">>, 8, 10),
       SentimentPattern(<<"zan", "nen">>, 7, 10),
       SentimentPattern(<<"kira", "ii">>, 7, 10),
       SentimentPattern(<<"tsu", "ma", "ra", "na", "ii">>, 8, 10),
       SentimentPattern(<<"fu", "man">>, 7, 10) >>

\* sentiment.SENTIMENT_PATTERNS
SENTIMENT_PATTERNS ==
    << SentimentPattern(<<"kpo", "kji", "kte", "kxi", "kbu">>, 12, 10),
       SentimentPattern(<<"sai", "takai">>, 15, 12),
       SentimentPattern(<<"moto", "hare", "ra", "shi", "ii">>, 14, 10),
       SentimentPattern(<<"yoi", "ii">>, 11, 10),
       SentimentPattern(<<"suki", "hki">>, 12, 10),
       SentimentPattern(<<"ureshi", "shi", "ii">>, 13, 10),
       SentimentPattern(<<"tano", "shi", "ii">>, 13, 10),
       SentimentPattern(<<"kne", "kga", "kte", "kxi", "kbu">>, 7, 10),
       SentimentPattern(<<"waru", "ii">>, 8, 10),
       SentimentPattern(<<"zan", "nen">>, 7, 10),
       SentimentPattern(<<"kira", "ii">>, 7, 10),
       SentimentPattern(<<"tsu", "ma", "ra", "na", "ii">>, 8, 10),
       SentimentPattern(<<"fu", "man">>, 7, 10) >>

\* len(re.findall(word, text)): the occurrences of word in text, counted from
\* the left without overlap
RECURSIVE findall_len(_, _)
findall_len(word, t) ==
    IF Len(t) < Len(word) THEN 0
    ELSE IF SubSeq(t, 1, Len(word)) = word
    THEN 1 + findall_len(word, SubSeq(t, Len(word) + 1, Len(t)))
    ELSE findall_len(word, Tail(t))

\* Natural numbers of any size: the sequence of the digits in base 1000, the
\* lowest first, without leading zeros (<<>> is 0).
BIG_BASE == 1000

RECURSIVE BigMulCarry(_, _, _)
BigMulCarry(a, k, carry) ==
    IF a = <<>>
    THEN IF carry = 0 THEN <<>>
         ELSE <<carry % BIG_BASE>> \o BigMulCarry(<<>>, k, carry \div BIG_BASE)
    ELSE LET v == a[1] * k + carry
         IN <<v % BIG_BASE>> \o BigMulCarry(Tail(a), k, v \div BIG_BASE)

\* a * k, for 0 < k < 1000000
BigMul(a, k) == BigMulCarry(a, k, 0)

\* a * k^n
RECURSIVE BigMulPow(_, _, _)
BigMulPow(a, k, n) == IF n = 0 THEN a ELSE BigMulPow(BigMul(a, k), k, n - 1)

RECURSIVE BigLessFrom(_, _, _)
BigLessFrom(a, b, i) ==
    IF i = 0 THEN FALSE
    ELSE IF a[i] # b[i] THEN a[i] < b[i]
    ELSE BigLessFrom(a, b, i - 1)

BigLess(a, b) ==
    IF Len(a) # Len(b) THEN Len(a) < Len(b) ELSE BigLessFrom(a, b, Len(a))

BIG_ONE == <<1>>

\* the tenth power of the product of "pattern.score ** (count *
\* pattern.weight)" over the patterns from the i-th on, as a fraction
\* [num, den]: score and weight are in tenths, so the tenth power of
\* score ** (count * weight) is (score / 10) ^ (count * weight in tenths)
RECURSIVE SentimentPower(_, _, _, _)
SentimentPower(patterns, i, t, acc) ==
    IF i > Len(patterns) THEN acc
    ELSE LET count == findall_len(patterns[i].word, t)
             e == count * patterns[i].weight
         IN SentimentPower(patterns, i + 1, t,
                [num |-> BigMulPow(acc.num, patterns[i].score, e),
                 den |-> BigMulPow(acc.den, 10, e)])

\* the least r in lo..hi with x < den * (2r + 1)^10
RECURSIVE LeastAbove(_, _, _, _)
LeastAbove(x, den, lo, hi) ==
    IF lo = hi THEN lo
    ELSE LET mid == (lo + hi) \div 2
         IN IF BigLess(x, BigMulPow(den, 2 * mid + 1, 10))
            THEN LeastAbove(x, den, lo, mid)
            ELSE LeastAbove(x, den, mid + 1, hi)

\* the scores of the model are below 8.192
ROUND_LIMIT == 8191

\* round(v, 3) in thousandths, for v with v^10 = p.num / p.den: the r with
\* (2r - 1) / 2000 < v < (2r + 1) / 2000.  As for RoundNearest, there is no
\* value when v is exactly half way.
round3(p) ==
    LET x == BigMulPow(p.num, 2000, 10)
        r == LeastAbove(x, p.den, 0, ROUND_LIMIT)
    IN CASE /\ BigLess(x, BigMulPow(p.den, 2 * r + 1, 10))
            /\ (r = 0 \/ BigLess(BigMulPow(p.den, 2 * r - 1, 10), x)) -> r

\* sentiment.analyze_sentiment
analyze_sentiment(t) ==
    IF t = <<>> THEN 1000
    ELSE round3(SentimentPower(SENTIMENT_PATTERNS, 1, t,
                               [num |-> BIG_ONE, den |-> BIG_ONE]))

\* ------------------------------------------------------------------------
\* Calls of the pure scoring functions
\* ------------------------------------------------------------------------
\* hours_old, in tenths of an hour: each threshold, its neighbours, and ages
\* below and above all of them
TIME_INPUTS ==
    {-1, 0, 4, 5, 6, 9, 10, 11, 29, 30, 31, 59, 60, 61, 119, 120, 121,
     239, 240, 241, 1000}

call_calculate_time_weight ==
    /\ call = None
    /\ \E x \in TIME_INPUTS :
        /\ call' = [fn |-> "_calculate_time_weight", arg |-> x]
        /\ ret' = _calculate_time_weight(x)
    /\ UNCHANGED <<storeVars, scoreVars>>

\* the keywords given to _evaluate_trend_indicators: the short ones over
\* BONUS_CHARS, and keywords that hold an indicator, an urgency marker, more
\* than ten characters, or bonuses above 1.0 together
BONUS_CHARS ==
    {"A", "I", "1", "#", "@", "!", "zq", "hanashi", "dai", "n", "e", "w"}
BONUS_KEYWORDS ==
    { <<"b", "r", "e", "a", "k", "i", "n", "g">>,
      <<"t", "r", "e", "n", "d", "i", "n", "g">>,
      <<"#", "@", "1", "!", "soku", "hou">>,
      <<"a", "a", "a", "a", "a", "a", "a", "a", "a", "a", "a">>,
      <<"h", "o", "t", "n", "e", "w", "b", "u", "z", "z">>,
      <<"h", "o", "t", " ", "n", "e", "w", " ", "b", "u", "z", "z">> }

call_evaluate_trend_indicators ==
    /\ call = None
    /\ \E x \in Strs(BONUS_CHARS, MaxKeywordLen) \cup BONUS_KEYWORDS :
        /\ call' = [fn |-> "_evaluate_trend_indicators", arg |-> x]
        /\ ret' = _evaluate_trend_indicators(x)
    /\ UNCHANGED <<storeVars, scoreVars>>

\* the texts given to analyze_sentiment: they can spell the rules 1.5 (weight
\* 1.2) and 0.8
SENTIMENT_CHARS == {"sai", "takai", "waru", "ii", "x"}

call_analyze_sentiment ==
    /\ call = None
    /\ \E x \in Strs(SENTIMENT_CHARS, MaxSentimentLen) :
        /\ call' = [fn |-> "analyze_sentiment", arg |-> x]
        /\ ret' = analyze_sentiment(x)
    /\ UNCHANGED <<storeVars, scoreVars>>

ScoringFnNext ==
    \/ call_calculate_time_weight
    \/ call_evaluate_trend_indicators
    \/ call_analyze_sentiment

ScoringFnSpec == TextInit /\ [][ScoringFnNext]_vars

SAIKOU == <<"sai", "takai">>

\* C16 as stated: analyze_sentiment returns 1.0 for the empty text, 1.5 for
\* one occurrence of the word U+6700 U+9AD8 and 2.25 for two occurrences: the
\* rule contributes 1.5 to the power of the number of occurrences.
C16_PlainPower ==
    Called("analyze_sentiment") =>
        /\ call.arg = <<>> => ret = 1000
        /\ call.arg = SAIKOU => ret = 1500
        /\ call.arg = SAIKOU \o SAIKOU => ret = 2250

\* C16, amended: analyze_sentiment returns 1.0 for the empty text, 1.627 for
\* one occurrence of the word and 2.646 for two: the rule contributes 1.5 to
\* the power of 1.2 times the number of occurrences, 1.2 being the weight the
\* table gives to this rule.
C16_WeightedPower ==
    Called("analyze_sentiment") =>
        /\ call.arg = <<>> => ret = 1000
        /\ call.arg = SAIKOU => ret = 1627
        /\ call.arg = SAIKOU \o SAIKOU => ret = 2646

\* the text of two occurrences has been scored
C16_Witness ==
    /\ Called("analyze_sentiment")
    /\ call.arg = SAIKOU \o SAIKOU
    /\ ret = 2646

\* the step function of the claim
ClaimedTimeWeight(h) ==
    CASE h <= 5 -> 15
      [] h > 5 /\ h <= 10 -> 12
      [] h > 10 /\ h <= 30 -> 10
      [] h > 30 /\ h <= 60 -> 9
      [] h > 60 /\ h <= 120 -> 7
      [] h > 120 /\ h <= 240 -> 5
      [] h > 240 -> 3

\* C19: _calculate_time_weight is the step function <= 0.5h -> 1.5, <= 1h ->
\* 1.2, <= 3h -> 1.0, <= 6h -> 0.9, <= 12h -> 0.7, <= 24h -> 0.5, otherwise
\* 0.3, each threshold belonging to the younger step; the weight of an age is
\* never above the weight of a younger age.
C19_TimeWeightSteps ==
    Called("_calculate_time_weight") =>
        /\ ret = ClaimedTimeWeight(call.arg)
        /\ \A younger \in TIME_INPUTS :
               younger <= call.arg => _calculate_time_weight(younger) >= ret

\* the weight at the threshold of 6 hours is the weight of the younger step
C19_Witness ==
    /\ Called("_calculate_time_weight")
    /\ call.arg = 60
    /\ ret = 9

\* the sum of the claim: per indicator 20 if it is in the lower-cased keyword,
\* otherwise 10 if one of its parts is, and the bonuses of the keyword's form
IndicatorBonus(ind, k) ==
    IF Contains(lower(k), ind) THEN 20
    ELSE IF \E part \in split(ind) : Contains(lower(k), part) THEN 10
    ELSE 0

RECURSIVE SumOver(_, _)
SumOver(S, k) ==
    IF S = {} THEN 0
    ELSE LET ind == CHOOSE x \in S : TRUE
         IN IndicatorBonus(ind, k) + SumOver(S \ {ind}, k)

ClaimedBonus(k) ==
    SumOver(TREND_INDICATORS, k)
    + (IF \E i \in 1..Len(k) : k[i] = "#" THEN 30 ELSE 0)
    + (IF \E i \in 1..Len(k) : k[i] = "@" THEN 20 ELSE 0)
    + (IF \E i \in 1..Len(k) : k[i] \in DIGITS THEN 10 ELSE 0)
    + (IF Len(k) <= 10 THEN 10 ELSE 0)
    + (IF \E i \in 1..Len(k) : k[i] \in {"!", "?", "zbang", "zq"}
       THEN 15 ELSE 0)
    + (IF \E u \in URGENCY_MARKERS : Contains(lower(k), u) THEN 25 ELSE 0)

\* C20: _evaluate_trend_indicators returns a value in [0, 1], the sum of the
\* bonuses of the claim clamped to at most 1.0.
C20_BonusClamped ==
    Called("_evaluate_trend_indicators") =>
        /\ ret >= 0
        /\ ret <= 100
        /\ ret = (IF ClaimedBonus(call.arg) > 100 THEN 100
                  ELSE ClaimedBonus(call.arg))

\* a keyword whose bonuses add up to more than 1.0 has been evaluated
C20_Witness ==
    /\ Called("_evaluate_trend_indicators")
    /\ ClaimedBonus(call.arg) > 100
    /\ ret = 100

\* ------------------------------------------------------------------------
\* TrendScoring.get_latest_trends
\* ------------------------------------------------------------------------
\* a row of the trends table; age is now - created_at in hours, score is in
\* hundredths
TrendRow(id, age, count, score) ==
    [id |-> id, age |-> age, count |-> count, score |-> score]

RECENT_HOURS == 6
CUTOFF_HOURS == 24
IMPORTANT_COUNT == 100
IMPORTANT_SCORE == 50

\* the rows a table may hold: four of the last 6 hours (two of them created
\* at the same time, one exactly 6 hours old), two important older ones (one
\* exactly 24 hours old), one older than 24 hours, and two older ones that
\* miss the count or the score by the least amount
TREND_ROWS ==
    { TrendRow(1, 0, 1, 0), TrendRow(2, 0, 500, 90), TrendRow(3, 3, 1, 0),
      TrendRow(4, 6, 1, 0), TrendRow(5, 7, 101, 51), TrendRow(6, 24, 101, 90),
      TrendRow(7, 25, 101, 90), TrendRow(8, 7, 100, 90),
      TrendRow(9, 7, 101, 50) }

\* where(created_at >= recent_cutoff)
IsRecentRow(r) == r.age <= RECENT_HOURS

\* where(created_at >= cutoff_time, created_at < recent_cutoff, count > 100,
\* score > 0.5)
IsRemainingRow(r) ==
    /\ r.age <= CUTOFF_HOURS
    /\ r.age > RECENT_HOURS
    /\ r.count > IMPORTANT_COUNT
    /\ r.score > IMPORTANT_SCORE

Arrangements(S) ==
    { s \in [1..Cardinality(S) -> S] :
        \A i, j \in 1..Cardinality(S) : i # j => s[i] # s[j] }

\* order_by(created_at.desc()): rows created at the same time come in any
\* order
ByCreatedDesc(S) ==
    { s \in Arrangements(S) :
        \A i, j \in 1..Len(s) : i < j => s[i].age <= s[j].age }

\* order_by(score.desc(), created_at.desc())
ByScoreDescCreatedDesc(S) ==
    { s \in Arrangements(S) :
        \A i, j \in 1..Len(s) : i < j =>
            \/ s[i].score > s[j].score
            \/ s[i].score = s[j].score /\ s[i].age <= s[j].age }

\* .limit(n)
Limit(s, n) == SubSeq(s, 1, Min(n, Len(s)))

RecentLimit_whole(limit) == limit
\* .limit(limit // 2) of the query of the recent rows
RecentLimit(limit) == limit \div 2

\* the lists get_latest_trends can return for a table and a limit
get_latest_trends(db, limit) ==
    { LET recent_trends == Limit(recent, RecentLimit(limit))
          remaining_limit == limit - Len(recent_trends)
          remaining_trends == IF remaining_limit > 0
                              THEN Limit(remaining, remaining_limit)
                              ELSE <<>>
      IN recent_trends \o remaining_trends :
      recent \in ByCreatedDesc({r \in db : IsRecentRow(r)}),
      remaining \in ByScoreDescCreatedDesc({r \in db : IsRemainingRow(r)}) }

call_get_latest_trends ==
    /\ call = None
    /\ \E db \in SUBSET TREND_ROWS, limit \in 0..MaxLimit :
        /\ call' = [fn |-> "get_latest_trends", db |-> db, limit |-> limit]
        /\ ret' \in get_latest_trends(db, limit)
    /\ UNCHANGED <<storeVars, scoreVars>>

LatestNext == call_get_latest_trends

LatestSpec == TextInit /\ [][LatestNext]_vars

\* the rows of the last 6 hours in the table of the call, and their number in
\* the returned list
RecentInDb == {r \in call.db : r.age <= 6}
RecentReturned == {i \in 1..Len(ret) : ret[i].age <= 6}

\* what C17 says whichever number of recent rows is to be taken: at most
\* limit rows of the table, none twice, the recent ones first and newest
\* first and the newest of the table, the others created between 24 and 6
\* hours ago with count > 100 and score > 0.5, none older than 24 hours
LatestShape ==
    /\ Len(ret) <= call.limit
    /\ \A i \in 1..Len(ret) : ret[i] \in call.db /\ ret[i].age <= 24
    /\ \A i, j \in 1..Len(ret) : i # j => ret[i] # ret[j]
    /\ \A i, j \in 1..Len(ret) :
           (i < j /\ j \in RecentReturned) =>
               i \in RecentReturned /\ ret[i].age <= ret[j].age
    /\ \A i \in RecentReturned :
           \A r \in RecentInDb :
               (\A j \in 1..Len(ret) : ret[j] # r) => ret[i].age <= r.age
    /\ \A i \in 1..Len(ret) :
           i \notin RecentReturned =>
               ret[i].age > 6 /\ ret[i].count > 100 /\ ret[i].score > 50

C18_ImportanceOfRegistryTables ==
    \A t \in Threads :
        (Done(t) /\ ValidCall(t)
            /\ <<sc[t].jp_patterns, sc[t].en_patterns>> = REGISTRY_TABLES) =>
            /\ sc[t].exc = NoError
            /\ \A i \in 1..Len(Entries(t)) :
                   /\ Entries(t)[i].pattern.kind = "str"
                   /\ Entries(t)[i].pattern.src \notin UNCOMPILABLE
                   /\ search(Entries(t)[i].pattern.src, lower(sc[t].keyword))
                          => Entries(t)[i].type \in DOMAIN importance_weights
            /\ sc[t].max_weight >= 10

\* ------------------------------------------------------------------------
\* Calls of the functions of the tokenizer
\* ------------------------------------------------------------------------
\* _is_balanced(text), on any text of brackets of two kinds, a letter and the
\* backslash
BALANCE_CHARS == {"a", "bs", "(", ")", "[", "]"}

call_is_balanced ==
    /\ call = None
    /\ \E x \in Strs(BALANCE_CHARS, MaxBalanceLen) :
        /\ call' = [fn |-> "_is_balanced", arg |-> x, nth |-> 1]
        /\ ret' = _is_balanced(x)
    /\ UNCHANGED <<storeVars, scoreVars>>

BalanceNext == call_is_balanced

BalanceSpec == TextInit /\ [][BalanceNext]_vars

\* C21: _is_balanced(text) is true exactly when the unescaped brackets of
\* text are well nested over the pair table, a backslash escaping exactly the
\* one character that follows it: an escaped character, a backslash included,
\* is skipped, and the character after it is checked normally.
C21_BalancedIffWellNested ==
    Called("_is_balanced") => (ret <=> WellNested(call.arg))

\* the closing brackets and quotes that suppress a boundary right before them
BOUNDARY_CLOSERS == {"rq", "drq", "zrp", ")"}

\* the first run of sentence-terminal punctuation of t starts at t[i], it
\* follows no abbreviation and no closing bracket or quote comes right after
\* it and its whitespace; the text before it is not blank, is bracket-balanced
\* and holds no list marker
FirstBoundaryAt(t, i) ==
    LET e == i + RunLen(t, i, TERMINAL_PUNCT)
        f == e + RunLen(t, e, WHITESPACE_CHARS)
        before == SubSeq(t, 1, i - 1)
    IN  /\ t[i] \in TERMINAL_PUNCT
        /\ \A k \in 1..(i - 1) :
               t[k] \notin TERMINAL_PUNCT \cup BULLETS \cup DIGITS \cup {"nl"}
        /\ \A a \in ABBREVIATIONS : ~PrecededBy(t, i, a)
        /\ f <= Len(t) => t[f] \notin BOUNDARY_CLOSERS
        /\ strip(before) # <<>>
        /\ WellNested(before)

\* C22: a run of sentence-terminal punctuation is a sentence boundary unless
\* it follows an abbreviation or is immediately followed by a closing bracket
\* or quote; when the text accumulated before the boundary is
\* bracket-balanced, the text after it starts a new sentence, whatever
\* brackets occur later in the input: the balanced text before the first
\* boundary is the first sentence.
C22_BoundarySplits ==
    Called("split_sentences") =>
        \A i \in 1..Len(call.arg) :
            FirstBoundaryAt(call.arg, i) =>
                ret[1] = strip(SubSeq(call.arg, 1, i - 1))

\* ------------------------------------------------------------------------
\* The loops of split_sentences, one fragment or list item at a time
\* ------------------------------------------------------------------------
\* the texts the loops run on: the short ones over a letter, the period, the
\* space, an opening bracket and a list marker, and texts whose bracket is
\* closed in a later fragment or that hold list items on lines of their own
LOOP_CHARS == {"a", ".", " ", "(", "-"}
LOOP_TEXTS ==
    { <<"(", "a", ".", "a", ")", ".", "a">>, <<"(", ".", ")">>,
      <<"(", "a", ")", ".", "(", "a">>, <<"a", "nl", "-", "(", "nl", "-", "a">> }

\* "raw_sentences = re.split(pattern, text); sentences = []; current = ''"
ss_call ==
    /\ call = None
    /\ \E x \in Strs(LOOP_CHARS, MaxLoopLen) \cup LOOP_TEXTS :
        call' = [fn |-> "split_sentences", arg |-> x, nth |-> 1,
                 pc |-> "loop", raw |-> SplitFrom(x, 1, 1), k |-> 1,
                 list_items |-> <<>>, j |-> 0,
                 sentences |-> <<>>, current |-> <<>>]
    /\ UNCHANGED <<ret, storeVars, scoreVars>>

\* "current += s; if _is_balanced(current): ..." on the fields of the call
Added(piece) ==
    Accumulate([sentences |-> call.sentences, current |-> call.current],
               piece)

\* one iteration of "for s in raw_sentences": a fragment that holds list
\* markers enters the loop over its items, any other is added to the buffer
ss_fragment ==
    /\ Called("split_sentences")
    /\ call.pc = "loop"
    /\ call.k <= Len(call.raw)
    /\ LET list_items == ListSplitFrom(call.raw[call.k], 1, 1)
       IN  IF Len(list_items) > 1
           THEN call' = [call EXCEPT !.pc = "items", !.j = 1,
                                     !.list_items = list_items]
           ELSE call' = [call EXCEPT
                            !.k = @ + 1,
                            !.sentences = Added(call.raw[call.k]).sentences,
                            !.current = Added(call.raw[call.k]).current]
    /\ UNCHANGED <<ret, storeVars, scoreVars>>

\* one iteration of "for item in list_items": an item that is not blank is
\* added to the buffer; after the last item the outer loop goes on
ss_item ==
    /\ Called("split_sentences")
    /\ call.pc = "items"
    /\ LET item == call.list_items[call.j]
           last == call.j = Len(call.list_items)
           kept == strip(item) # <<>>
       IN  call' = [call EXCEPT
                       !.j = IF last THEN 0 ELSE @ + 1,
                       !.k = IF last THEN @ + 1 ELSE @,
                       !.pc = IF last THEN "loop" ELSE "items",
                       !.list_items = IF last THEN <<>> ELSE @,
                       !.sentences = IF kept THEN Added(item).sentences ELSE @,
                       !.current = IF kept THEN Added(item).current ELSE @]
    /\ UNCHANGED <<ret, storeVars, scoreVars>>

\* variant: the end of the loop without "if current: sentences.append(...)"
ss_flush_no_rest ==
    /\ Called("split_sentences")
    /\ call.pc = "loop"
    /\ call.k > Len(call.raw)
    /\ call' = [call EXCEPT !.pc = "done"]
    /\ ret' = [val |-> SelectSeq(call.sentences, LAMBDA x : x # <<>>)]
    /\ UNCHANGED <<storeVars, scoreVars>>

\* "if current: sentences.append(current.strip())" and
\* "return [s for s in sentences if s]"; ret.val is the list returned
ss_flush ==
    /\ Called("split_sentences")
    /\ call.pc = "loop"
    /\ call.k > Len(call.raw)
    /\ call' = [call EXCEPT !.pc = "done"]
    /\ ret' = [val |-> SelectSeq(IF call.current # <<>>
                                 THEN Append(call.sentences,
                                             strip(call.current))
                                 ELSE call.sentences,
                                 LAMBDA x : x # <<>>)]
    /\ UNCHANGED <<storeVars, scoreVars>>

SplitLoopNext == ss_call \/ ss_fragment \/ ss_item \/ ss_flush

SplitLoopSpec == TextInit /\ [][SplitLoopNext]_vars

\* the loops are a sequential program: an iteration that can be taken is
\* taken
FairSplitLoopSpec ==
    SplitLoopSpec /\ WF_call(ss_fragment \/ ss_item \/ ss_flush)

RECURSIVE Concat(_)
Concat(ss) == IF ss = <<>> THEN <<>> ELSE Head(ss) \o Concat(Tail(ss))

NoSpace(s) == SelectSeq(s, LAMBDA c : ~IsSpace(c))

\* the fragments the loops are given: the list items of a fragment that
\* holds list markers, the fragment itself otherwise
RECURSIVE Fragments(_, _)
Fragments(raw, k) ==
    IF k > Len(raw) THEN <<>>
    ELSE LET list_items == ListSplitFrom(raw[k], 1, 1)
         IN  (IF Len(list_items) > 1 THEN list_items ELSE <<raw[k]>>)
                 \o Fragments(raw, k + 1)

SplitDone == Called("split_sentences") /\ call.pc = "done"

\* the sentences that are not empty
NonEmpty(ss) == SelectSeq(ss, LAMBDA x : x # <<>>)

\* C23: split_sentences terminates on every input, also when the brackets
\* never become balanced: every step moves on to the next list item or the
\* next fragment and none is visited twice, the buffer left at the end of the
\* input is emitted exactly once, as the last sentence, the returned
\* sentences hold the non-blank text of the fragments once and in input
\* order, and every returned sentence is trimmed and not empty.
C23_SplitTerminates ==
    /\ Called("split_sentences") ~> SplitDone
    /\ [][Called("split_sentences") =>
             \/ call'.pc = "items" /\ call'.k = call.k
                    /\ call'.j = call.j + 1
             \/ call'.pc = "loop" /\ call'.k = call.k + 1
             \/ call'.pc = "done" /\ call.k = Len(call.raw) + 1]_call
    /\ [](SplitDone =>
             /\ call.current # <<>> =>
                    /\ ~_is_balanced(call.current)
                    /\ ret.val = Append(NonEmpty(call.sentences),
                                        strip(call.current))
             /\ call.current = <<>> => ret.val = NonEmpty(call.sentences)
             /\ NoSpace(Concat(ret.val))
                    = NoSpace(Concat(Fragments(call.raw, 1)))
             /\ \A i \in 1..Len(ret.val) :
                    ret.val[i] # <<>> /\ strip(ret.val[i]) = ret.val[i]
             /\ ret.val = split_sentences(call.arg))

\* a text whose bracket is never closed has been split: a sentence was
\* emitted before, and the open buffer is the last sentence
C23_Witness ==
    /\ SplitDone
    /\ call.current # <<>>
    /\ Len(ret.val) >= 2
    /\ Last(ret.val) = strip(call.current)
    /\ ~WellNested(Last(ret.val))

\* the texts of the tokens
TokenTexts(tokens) == [i \in 1..Len(tokens) |-> tokens[i].text]

\* a character that is ASCII and neither whitespace nor one of the six
\* separators
IsAsciiTokenChar(c) ==
    isascii(<<c>>) /\ c \notin TOKEN_SEPARATORS /\ ~IsSpace(c)

\* the maximal runs of such characters in s from s[i] on, in order
RECURSIVE AsciiRuns(_, _)
AsciiRuns(s, i) ==
    LET n == RunLen(s, i, {c \in Range(s) : IsAsciiTokenChar(c)})
    IN  IF i > Len(s) THEN <<>>
        ELSE IF n > 0 THEN <<SubSeq(s, i, i + n - 1)>> \o AsciiRuns(s, i + n)
        ELSE AsciiRuns(s, i + 1)

\* C24: in tokenize_sentence whitespace and the six punctuation characters
\* end the current token and are in no token; every Japanese character is a
\* token of exactly one character; every maximal run of ASCII characters not
\* interrupted by those separators is one token; no token is empty; and the
\* token texts, concatenated in order, are the sentence without whitespace
\* and those punctuation characters.
C24_TokenBoundaries ==
    Called("tokenize_sentence") =>
        LET texts == TokenTexts(ret)
            kept == SelectSeq(call.arg,
                        LAMBDA c : c \notin TOKEN_SEPARATORS /\ ~IsSpace(c))
        IN  /\ \A i \in 1..Len(texts) :
                   /\ texts[i] # <<>>
                   /\ \A k \in 1..Len(texts[i]) :
                          texts[i][k] \notin TOKEN_SEPARATORS
                              /\ ~IsSpace(texts[i][k])
                   /\ is_japanese_text(texts[i]) => Len(texts[i]) = 1
            /\ SelectSeq(texts, LAMBDA w : isascii(w)) = AsciiRuns(call.arg, 1)
            /\ Concat(texts) = kept

\* a sentence with a run of two ASCII characters and a Japanese character
\* has been tokenized
C24_Witness ==
    /\ Called("tokenize_sentence")
    /\ \E i \in 1..Len(ret) : Len(ret[i].text) = 2 /\ isascii(ret[i].text)
    /\ \E i \in 1..Len(ret) : is_japanese_text(ret[i].text)

\* ------------------------------------------------------------------------
\* tokenizer._check_compound_word
\* ------------------------------------------------------------------------
\* str.startswith
startswith(s, prefix) ==
    Len(prefix) <= Len(s) /\ SubSeq(s, 1, Len(prefix)) = prefix

\* Token(compound, <pos>, <language>, is_compound=True); "fukugogo" is the
\* Japanese for "compound word"
CompoundToken(compound, lang) ==
    [text |-> compound,
     pos |-> IF lang = "JAPANESE" THEN "fukugogo" ELSE "compound",
     language |-> IF lang = "JAPANESE" THEN "JAPANESE" ELSE "ENGLISH",
     is_compound |-> TRUE]

\* the token and the length returned, or None, with the set seen_compounds as
\* the call leaves it
_check_compound_word(txt, lang, seen_compounds) ==
    LET list == IF lang = "JAPANESE" THEN COMPOUND_WORDS ELSE TECH_WORDS
        compounds == SelectSeq(list, LAMBDA w : w \notin seen_compounds)
        found(compound) ==
            IF lang = "JAPANESE" THEN startswith(txt, compound)
            ELSE startswith(lower(txt), lower(compound))
        hits == {i \in 1..Len(compounds) : found(compounds[i])}
    IN  IF hits = {}
        THEN [result |-> None, seen_compounds |-> seen_compounds]
        ELSE LET compound ==
                     compounds[CHOOSE i \in hits : \A k \in hits : i <= k]
             IN  [result |-> [token |-> CompoundToken(compound, lang),
                              length |-> Len(compound)],
                  seen_compounds |-> seen_compounds \cup {compound}]

LANGUAGES == {"JAPANESE", "ENGLISH", "UNKNOWN"}

\* _check_compound_word(text, lang, seen_compounds), on any text of
\* COMPOUND_TEXTS and any set of entries already seen
call_check_compound_word ==
    /\ call = None
    /\ \E x \in COMPOUND_TEXTS, lang \in LANGUAGES,
          seen \in SUBSET (Range(COMPOUND_WORDS) \cup Range(TECH_WORDS)) :
        /\ call' = [fn |-> "_check_compound_word", arg |-> x, lang |-> lang,
                    seen_compounds |-> seen, nth |-> 1]
        /\ ret' = _check_compound_word(x, lang, seen)
    /\ UNCHANGED <<storeVars, scoreVars>>

\* C25: when the text tokenize_sentence is given starts with an entry of the
\* compound list or of the tech-word list, its first token is that entry as
\* one token with is_compound = true.
C25_CompoundTokenEmitted ==
    Called("tokenize_sentence") =>
        \A e \in Range(COMPOUND_WORDS) \cup Range(TECH_WORDS) :
            startswith(call.arg, e) =>
                /\ Len(ret) >= 1
                /\ ret[1].text = e
                /\ ret[1].is_compound

\* ------------------------------------------------------------------------
\* tokenizer._build_jp_patterns and tokenizer._find_longest_match.
\* A pattern of the ordered table is one of
\*   BWords(S)          \b(?:w1|w2|...)\b
\*   Affix(head, T)     [head]+(?:t1|t2|...)\b, with or without a leading \b
\*   Pairs(C)           \b(?:[C]{2})+\b
\*   BRun(C)            \b[C]+\b
\*   Lead(first, rest)  \b[first][rest]+\b
\*   Literal(t)         re.escape(t)
\* Each set holds the alternatives or the characters of the source pattern
\* that are characters of the model; an entry that matches no text of the
\* model is BWords({}).  GroupLen is the length of match.group(0), -1 when
\* the pattern does not match at the start of the text.
\* ------------------------------------------------------------------------
BWords(S) == [kind |-> "bwords", alts |-> S]
Affix(head, T) == [kind |-> "affix", head |-> head, tails |-> T]
Pairs(C) == [kind |-> "pairs", chars |-> C]
BRun(C) == [kind |-> "brun", chars |-> C]
Lead(first, rest) == [kind |-> "lead", first |-> first, rest |-> rest]
Literal(t) == [kind |-> "literal", lit |-> t]

\* \w at w[k]
IsWordAt(w, k) == k >= 1 /\ k <= Len(w) /\ w[k] \in WORD_CHARS

\* \b between w[k] and w[k + 1]
WordBoundary(w, k) == IsWordAt(w, k) # IsWordAt(w, k + 1)

\* the greatest number of S, -1 when S is empty
Greatest(S) == IF S = {} THEN -1 ELSE CHOOSE n \in S : \A k \in S : k <= n

GroupLen(pattern, w) ==
    CASE pattern.kind = "bwords" ->
             Greatest({Len(a) : a \in
                 {a \in pattern.alts :
                     /\ startswith(w, a)
                     /\ WordBoundary(w, 0)
                     /\ WordBoundary(w, Len(a))}})
      [] pattern.kind = "affix" ->
             LET ends(h) == {h + Len(t) : t \in
                                {t \in pattern.tails :
                                    /\ startswith(SubSeq(w, h + 1, Len(w)), t)
                                    /\ WordBoundary(w, h + Len(t))}}
                 H == {h \in 1..RunLen(w, 1, pattern.head) : ends(h) # {}}
             IN  IF H = {} THEN -1 ELSE Greatest(ends(Greatest(H)))
      [] pattern.kind = "pairs" ->
             Greatest({k \in 2..RunLen(w, 1, pattern.chars) :
                          k % 2 = 0 /\ WordBoundary(w, k)})
      [] pattern.kind = "brun" ->
             Greatest({k \in 1..RunLen(w, 1, pattern.chars) :
                          WordBoundary(w, 0) /\ WordBoundary(w, k)})
      [] pattern.kind = "lead" ->
             IF w # <<>> /\ w[1] \in pattern.first
             THEN Greatest({k \in 2..(1 + RunLen(w, 2, pattern.rest)) :
                               WordBoundary(w, k)})
             ELSE -1
      [] pattern.kind = "literal" ->
             IF startswith(w, pattern.lit) THEN Len(pattern.lit) ELSE -1

\* the characters of the class that the list VERB_STEM_ENDINGS, a list of
\* pairs, becomes when it is formatted into a pattern:
\* "[('U+3046', 'U+3046'), ...]"
STEM_CLASS == {"(", "'", ",", " ", ")", "su"}

\* the pairs (pattern, pos) of the patterns ps
PosEntries(ps, pos) == [i \in 1..Len(ps) |-> [pattern |-> ps[i], pos |-> pos]]

\* "jodoshi" = auxiliary verb, "joshi" = particle, "doshi" = verb,
\* "keiyoshi" = adjective, "fukushi" = adverb, "meishi" = noun,
\* "setsuzokushi" = conjunction, "kandoshi" = interjection, "kigo" = symbol
_build_jp_patterns ==
    LET desu == BWords({<<"de", "su">>})
        no == BWords({})
        AUXILIARY_VERBS == <<no, no, no, no, desu, no>>
        DEPENDENT_jodoshi == <<no, no, desu, no, no>>
        COMPOUND_PARTICLES == <<no>>
        DEPENDENT_joshi ==
            <<BWords({<<"ga">>, <<"de">>}), no, BWords({<<"ha">>}), no>>
        verb_pattern ==
            Affix(JAPANESE_CHARS, {<<c>> : c \in STEM_CLASS})
        INDEPENDENT_doshi ==
            <<Affix(JAPANESE_CHARS, {<<c>> : c \in STEM_CLASS}),
              no, no, no, no>>
        INDEPENDENT_keiyoshi ==
            <<no, Affix(JAPANESE_CHARS, {<<"na">>, <<"de">>, <<"de", "su">>}),
              no>>
        INDEPENDENT_fukushi == <<no, no, Pairs(HIRAGANA_CHARS)>>
        INDEPENDENT_meishi ==
            <<BRun(KANJI_CHARS), BRun(HIRAGANA_CHARS \cup {"nakaguro"}),
              BRun(KATAKANA_CHARS \cup {"nakaguro"}), no,
              Lead(KANJI_CHARS, JAPANESE_CHARS), no, no>>
        SPECIAL_setsuzokushi == <<BWords({<<"de", "ha">>})>>
        SPECIAL_kandoshi == <<no>>
        JP_SYMBOLS == <<no, Literal(<<"[", "]">>), Literal(<<"[", "]">>)>>
    IN  PosEntries(AUXILIARY_VERBS, "jodoshi")
        \o PosEntries(DEPENDENT_jodoshi, "jodoshi")
        \o PosEntries(COMPOUND_PARTICLES, "joshi")
        \o PosEntries(DEPENDENT_joshi, "joshi")
        \o <<[pattern |-> verb_pattern, pos |-> "doshi"]>>
        \o PosEntries(INDEPENDENT_doshi, "doshi")
        \o PosEntries(INDEPENDENT_keiyoshi, "keiyoshi")
        \o PosEntries(INDEPENDENT_fukushi, "fukushi")
        \o PosEntries(INDEPENDENT_meishi, "meishi")
        \o PosEntries(SPECIAL_setsuzokushi, "setsuzokushi")
        \o PosEntries(SPECIAL_kandoshi, "kandoshi")
        \o PosEntries(JP_SYMBOLS, "kigo")

\* str.endswith
endswith(s, suffix) ==
    Len(suffix) <= Len(s)
        /\ SubSeq(s, Len(s) - Len(suffix) + 1, Len(s)) = suffix

\* the features, a set of pairs (key, value).  "ru", "u", "tsu", "hi" name
\* U+308B, U+3046, U+3064, U+3044, which end no word of the model.
_extract_jp_features(word, pos) ==
    IF pos = "doshi"
    THEN IF endswith(word, <<"su", "ru">>)
         THEN {<<"conjugation", "sa-gyo henkaku">>}
         ELSE IF \E c \in {"u", "tsu", "ru"} : endswith(word, <<c>>)
         THEN {<<"conjugation", "godan">>}
         ELSE {}
    ELSE IF pos = "keiyoshi"
    THEN IF endswith(word, <<"hi">>) THEN {<<"type", "i-keiyoshi">>}
         ELSE IF endswith(word, <<"na">>) THEN {<<"type", "na-keiyoshi">>}
         ELSE {}
    ELSE {}

_extract_en_features(word, pos) ==
    IF pos = "verb"
    THEN IF endswith(word, <<"i", "n", "g">>)
         THEN {<<"tense", "progressive">>}
         ELSE IF endswith(word, <<"e", "d">>) THEN {<<"tense", "past">>}
         ELSE IF endswith(word, <<"s">>) THEN {<<"tense", "present">>}
         ELSE {}
    ELSE IF pos = "noun"
    THEN IF endswith(word, <<"s">>) /\ ~endswith(word, <<"s", "s">>)
         THEN {<<"number", "plural">>}
         ELSE {<<"number", "singular">>}
    ELSE {}

\* match.group(0).strip(), <<>> when the pattern does not match
GroupWord(pattern, w) ==
    IF GroupLen(pattern, w) < 0 THEN <<>>
    ELSE strip(SubSeq(w, 1, GroupLen(pattern, w)))

\* variant: a match as long as the longest so far replaces it
LongerMatch_or_equal(word, longest_length) ==
    word # <<>> /\ Len(word) >= longest_length

\* "if word and len(word) > longest_length"
LongerMatch(word, longest_length) ==
    word # <<>> /\ Len(word) > longest_length

\* the loop of _find_longest_match from patterns[i] on; longest_match is
\* <<>> for None, which "if longest_match" treats as it treats an empty word
RECURSIVE LongestFrom(_, _, _, _, _)
LongestFrom(txt, patterns, lang, i, best) ==
    IF i > Len(patterns) THEN best
    ELSE LET word == GroupWord(patterns[i].pattern, txt)
             pos == patterns[i].pos
         IN  IF GroupLen(patterns[i].pattern, txt) >= 0
                    /\ LongerMatch(word, best.longest_length)
             THEN LongestFrom(txt, patterns, lang, i + 1,
                      [longest_match |-> word,
                       longest_length |-> Len(word),
                       matched_pos |-> pos,
                       matched_features |->
                           IF lang = "JAPANESE"
                           THEN _extract_jp_features(word, pos)
                           ELSE _extract_en_features(word, pos)])
             ELSE LongestFrom(txt, patterns, lang, i + 1, best)

\* the token and the length returned, or None
_find_longest_match(txt, patterns, lang) ==
    LET best == LongestFrom(txt, patterns, lang, 1,
                    [longest_match |-> <<>>, longest_length |-> 0,
                     matched_pos |-> <<>>, matched_features |-> {}])
    IN  IF best.longest_match # <<>>
        THEN [token |-> [text |-> best.longest_match,
                         pos |-> best.matched_pos,
                         language |-> lang,
                         is_compound |-> FALSE,
                         features |-> best.matched_features],
              length |-> best.longest_length]
        ELSE None

\* ------------------------------------------------------------------------
\* tokenizer._build_en_patterns
\* ------------------------------------------------------------------------
\* constants.english.COMMON_VERBS as tokenizer.py reads it: one string, which
\* "for p in COMMON_VERBS" walks character by character
COMMON_VERBS_STR ==
    << "bs", "b", "(", "?", ":", "h", "a", "v", "e", "|", "h", "a", "s",
       "|", "h", "a", "d", "|", "d", "o", "|", "d", "o", "e", "s", "|",
       "d", "i", "d", "|", "m", "a", "k", "e", "|", "m", "a", "d", "e",
       "|", "t", "a", "k", "e", "|", "t", "o", "o", "k", "|", "g", "e",
       "t", "|", "g", "o", "t", "|", "g", "o", "|", "w", "e", "n", "t",
       "|", "c", "o", "m", "e", "|", "c", "a", "m", "e", "|", "s", "a",
       "y", "|", "s", "a", "i", "d", "|", "t", "h", "i", "n", "k", "|",
       "t", "h", "o", "u", "g", "h", "t", "|", "k", "n", "o", "w", "|",
       "k", "n", "e", "w", "|", "s", "e", "e", "|", "s", "a", "w", "|",
       "w", "a", "n", "t", "|", "w", "a", "n", "t", "e", "d", "|", "u",
       "s", "e", "|", "u", "s", "e", "d", "|", "f", "i", "n", "d", "|",
       "f", "o", "u", "n", "d", "|", "t", "e", "l", "l", "|", "t", "o",
       "l", "d", "|", "a", "s", "k", "|", "a", "s", "k", "e", "d", "|",
       "w", "o", "r", "k", "|", "w", "o", "r", "k", "e", "d", "|", "s",
       "e", "e", "m", "|", "s", "e", "e", "m", "e", "d", "|", "f", "e",
       "e", "l", "|", "f", "e", "l", "t", "|", "t", "r", "y", "|", "t",
       "r", "i", "e", "d", "|", "l", "e", "a", "v", "e", "|", "l", "e",
       "f", "t", "|", "c", "a", "l", "l", "|", "c", "a", "l", "l", "e",
       "d", "|", "l", "o", "v", "e", "|", "l", "o", "v", "e", "d", "|",
       "l", "o", "v", "e", "s", "|", "l", "o", "v", "i", "n", "g", ")",
       "bs", "b" >>

\* re.compile(rf"\b{p}\b", re.IGNORECASE) for a p of one character, a
\* character of COMMON_VERBS: "(" opens a group that is never closed, ")"
\* closes one that was never opened and "?" has nothing to repeat
CompilesAsWord(p) == p \notin {"(", ")", "?"}

\* the patterns of the category pos in a table of pattern lists
PatternsOf(table, pos) ==
    LET i == CHOOSE i \in 1..Len(table) : table[i].pos = pos
    IN  table[i].patterns

\* the entries of the categories of EN_INDEPENDENT_WORDS and FUNCTION_WORDS
\* are the patterns of those tables that match a word of the model; the
\* entries of COMPOUND_WORDS, TECH_WORDS and SYMBOLS["punctuation"] match no
\* text of the model
_build_en_patterns ==
    LET no == BWords({})
        chars == [i \in 1..Len(COMMON_VERBS_STR) |->
                     BWords({<<COMMON_VERBS_STR[i]>>})]
        independent(pos) ==
            PosEntries(PatternsOf(EN_INDEPENDENT_WORDS, pos), pos)
    IN  IF \E i \in 1..Len(COMMON_VERBS_STR) :
               ~CompilesAsWord(COMMON_VERBS_STR[i])
        THEN Raises("error")
        ELSE Returns(
                 PosEntries(<<BE_VERBS>>, "verb")
                 \o PosEntries(chars, "verb")
                 \o PosEntries(PatternsOf(FUNCTION_WORDS, "preposition"),
                               "preposition")
                 \o PosEntries(PatternsOf(FUNCTION_WORDS, "article"),
                               "article")
                 \o PosEntries(PatternsOf(FUNCTION_WORDS, "pronoun"),
                               "pronoun")
                 \o independent("verb") \o independent("adjective")
                 \o independent("adverb") \o independent("noun")
                 \o PosEntries(<<no, no>>, "compound")
                 \o PosEntries(<<no>>, "tech")
                 \o PosEntries(<<no, no, no>>, "punctuation"))

\* ------------------------------------------------------------------------
\* The tokenizer's tables and the functions that read them, each called once
\* ------------------------------------------------------------------------
MATCH_CHARS ==
    {"ha", "de", "su", "na", "watashi", "nakaguro", " ", "[", "]"}

\* patterns = _build_jp_patterns()
call_build_jp_patterns ==
    /\ call = None
    /\ call' = [fn |-> "_build_jp_patterns", nth |-> 1]
    /\ ret' = Returns(_build_jp_patterns)
    /\ UNCHANGED <<storeVars, scoreVars>>

\* patterns = _build_en_patterns()
call_build_en_patterns ==
    /\ call = None
    /\ call' = [fn |-> "_build_en_patterns", nth |-> 1]
    /\ ret' = _build_en_patterns
    /\ UNCHANGED <<storeVars, scoreVars>>

\* _find_longest_match(text, patterns, lang) on any text, with the table
\* _build_jp_patterns returns
call_find_longest_match ==
    /\ call = None
    /\ \E x \in Strs(MATCH_CHARS, MaxMatchLen),
          lang \in {"JAPANESE", "ENGLISH"} :
        /\ call' = [fn |-> "_find_longest_match", arg |-> x,
                    patterns |-> _build_jp_patterns, lang |-> lang,
                    nth |-> 1]
        /\ ret' = _find_longest_match(x, _build_jp_patterns, lang)
    /\ UNCHANGED <<storeVars, scoreVars>>

TableNext ==
    \/ call_build_jp_patterns
    \/ call_build_en_patterns
    \/ call_find_longest_match
    \/ call_check_compound_word

TableSpec == TextInit /\ [][TableNext]_vars

\* the entries of the table whose match at the start of w, as Len measures
\* it through word(i), is not empty; and the earliest entry among those of
\* the greatest length
NonEmptyMatches(n, word(_)) == {i \in 1..n : Len(word(i)) > 0}
EarliestLongest(n, word(_)) ==
    LET M == NonEmptyMatches(n, word)
        top == {i \in M : \A k \in M : Len(word(k)) <= Len(word(i))}
    IN  CHOOSE i \in top : \A k \in top : i <= k

\* match.group(0) of patterns[i] at the start of w, <<>> when there is none
RawMatch(patterns, w, i) ==
    IF GroupLen(patterns[i].pattern, w) < 0 THEN <<>>
    ELSE SubSeq(w, 1, GroupLen(patterns[i].pattern, w))

FeaturesOf(word, pos, lang) ==
    IF lang = "JAPANESE" THEN _extract_jp_features(word, pos)
    ELSE _extract_en_features(word, pos)

DEPENDENT_POS == {"jodoshi", "joshi", "preposition", "article", "pronoun"}
INDEPENDENT_POS ==
    {"doshi", "keiyoshi", "fukushi", "meishi",
     "verb", "adjective", "adverb", "noun"}
SYMBOL_POS == {"kigo", "punctuation"}

\* C28: _build_jp_patterns and _build_en_patterns each return a table in
\* which every dependent or function-word entry precedes every independent
\* or content-word entry, and every independent or content-word entry
\* precedes every symbol entry.
C28_TableOrder ==
    (Called("_build_jp_patterns") \/ Called("_build_en_patterns")) =>
        /\ ret.exc = NoError
        /\ \A i, j \in 1..Len(ret.val) :
               /\ (ret.val[i].pos \in DEPENDENT_POS
                       /\ ret.val[j].pos \in INDEPENDENT_POS) => i < j
               /\ (ret.val[i].pos \in INDEPENDENT_POS
                       /\ ret.val[j].pos \in SYMBOL_POS) => i < j

\* ------------------------------------------------------------------------
\* TrendAnalyzer._adjust_importance, called on its own
\* ------------------------------------------------------------------------
\* a kanji noun, a particle, an article, a pronoun, a noun, an adjective and
\* a verb
ADJUST_WORDS ==
    { <<"watashi">>, <<"ga">>, <<"a">>, <<"i">>, <<"a", "r", "y">>,
      <<"s", "y">>, <<"i", "s">> }
ADJUST_POS == {"meishi", "doshi", "joshi", "noun", "verb"}
ADJUST_CONTEXTS == {<<>>, << <<"watashi">> >>, << <<"i", "s">> >>}

\* self._adjust_importance(word, pos, importance, words, i, prev_words,
\* next_words), for the word at any place of any sentence
call_adjust_importance ==
    /\ call = None
    /\ \E ws \in Strs(ADJUST_WORDS, MaxAdjustWords) \ {<<>>},
          index \in 1..MaxAdjustWords, pos \in ADJUST_POS,
          base \in {IMPORTANCE_INDEPENDENT, IMPORTANCE_DEPENDENT,
                    IMPORTANCE_SYMBOL},
          prv \in ADJUST_CONTEXTS, nxt \in ADJUST_CONTEXTS :
        /\ index <= Len(ws)
        /\ call' = [fn |-> "_adjust_importance", word |-> ws[index],
                    pos |-> pos, base |-> base, words |-> ws,
                    index |-> index, prev |-> prv, next |-> nxt, nth |-> 1]
        /\ ret' = _adjust_importance(ws[index], pos, base, ws, index, prv, nxt)
    /\ UNCHANGED <<storeVars, scoreVars>>

AdjustNext == call_adjust_importance

AdjustSpec == TextInit /\ [][AdjustNext]_vars

\* the factors of C27, in tenths
PositionFactor ==
    IF call.index = 1 \/ call.index = Len(call.words) THEN 12 ELSE 10

ContextFactor ==
    IF call.word \in Range(call.prev) \/ call.word \in Range(call.next)
    THEN 15 ELSE 10

GrammarFactor ==
    LET before == _identify_part_of_speech(call.words[call.index - 1]).pos
    IN  IF is_japanese_text(call.word)
        THEN IF /\ call.pos = "meishi"
                /\ call.index < Len(call.words)
                /\ call.words[call.index + 1] \in IMPORTANT_PARTICLES
             THEN 13
             ELSE IF call.pos = "doshi" /\ call.index = Len(call.words)
             THEN 12
             ELSE 10
        ELSE IF /\ call.pos = "noun"
                /\ call.index > 1
                /\ before \in {"article", "adjective"}
             THEN 13
             ELSE IF /\ call.pos = "verb"
                     /\ call.index > 1
                     /\ before \in {"noun", "pronoun"}
             THEN 12
             ELSE 10

\* C27: _adjust_importance returns min(base * p * c * g, 3.0): p is 1.2 for a
\* token that is first or last in its sentence (once, even when it is both),
\* c is 1.5 for a token whose text is a word of the previous or of the next
\* sentence, g is 1.3 for a Japanese noun immediately followed by an
\* important particle, else 1.2 for a Japanese verb that ends the sentence,
\* 1.3 for an English noun preceded by an article or an adjective, else 1.2
\* for an English verb preceded by a noun or a pronoun; each factor is 1
\* otherwise.
C27_AdjustedImportance ==
    Called("_adjust_importance") =>
        ret = Min((call.base * PositionFactor * ContextFactor * GrammarFactor)
                      \div 1000,
                  IMPORTANCE_CAP)

\* a Japanese verb that is the only word of its sentence, hence first and
\* last, and a word of the previous sentence: 0.5 * 1.2 * 1.5 * 1.2 = 1.08
C27_Witness ==
    /\ Called("_adjust_importance")
    /\ Len(call.words) = 1
    /\ PositionFactor = 12
    /\ ContextFactor = 15
    /\ GrammarFactor = 12
    /\ ret = 10800

\* ------------------------------------------------------------------------
\* update_trends: the counts returned and the counts stored
\* ------------------------------------------------------------------------
\* C29: for every keyword update_trends writes, by an insert or by an
\* increment, the count of the entry it appends to its result list equals the
\* count the store holds for that keyword right after that write.
C29_ReturnedCountIsStored ==
    \A p \in Passes :
        pc[p] = "commit" =>
            /\ Last(trends[p]).keyword = pending[p].keyword
            /\ Last(trends[p]).count = pending[p].count

\* a request whose text is any text of at most MaxChars characters, whatever
\* the texts of the other requests
get_db_enter_text(p) ==
    /\ pc[p] = "idle"
    /\ \A q \in Passes : q < p => pc[q] # "idle"
    /\ \E t \in TrendTexts(MaxChars) : text' = [text EXCEPT ![p] = t]
    /\ pc' = [pc EXCEPT ![p] = "loop"]
    /\ evlog' = [evlog EXCEPT ![p] = Append(@, Event("open", <<>>))]
    /\ UNCHANGED <<store, store0, writer, idx, sel, pending, trends, exc,
                   outcome, call, ret, cache, sc>>

TextPass(p) ==
    \/ get_db_enter_text(p)
    \/ ut_next_word(p)
    \/ ut_update(p)
    \/ ut_insert(p)
    \/ ut_commit(p)
    \/ ut_return(p)
    \/ store_fails(p)
    \/ body_raises_other(p)
    \/ get_db_except(p)
    \/ get_db_finally(p)

TextNext == \E p \in Passes : TextPass(p)

TextPassSpec == Init /\ [][TextNext]_vars

====
